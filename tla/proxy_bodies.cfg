SPECIFICATION SideBySide
CONSTANTS
  Clients = {c1}
  Cells = {a1, a2}
  Nobody = Nobody
  Requested = {0, 1, 2}
  Answered = {0, 1, 2, 3}
  Chars <- MCChars
  Newline = "nl"
  RIO_BUFSIZE = 2
  Sizes = {0, 1, 2, 3}
  Texts <- MCTexts
  MaxArrived = 4
  MaxWritten = 2
INVARIANTS LoggedTrue CompleteLogged
PROPERTIES ThreadEnds IsStream CallEnds
CHECK_DEADLOCK FALSE
