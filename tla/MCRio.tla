-------------------------------- MODULE MCRio --------------------------------
(***************************************************************************)
(* Model checking of the proxy with one connection, and of one descriptor  *)
(* under it.  Proxy takes a read or a write for one step; what that step   *)
(* consists of is Rio.  The two are checked side by side and not together: *)
(* a behaviour is one of the proxy or one of the descriptor.               *)
(***************************************************************************)
EXTENDS Proxy, Rio

MCChars == {"x", "nl"}
MCTexts == {<<"x", "nl">>}

both == <<vars, rio_vars>>

OfProxy(A) == A /\ RioInit /\ UNCHANGED rio_vars
OfRio(A) == A /\ Init /\ UNCHANGED vars

SideBySide ==
  /\ Init /\ RioInit
  /\ [][OfProxy(Next) \/ OfRio(RioNext)]_both
  /\ WF_both(OfProxy(Main))
  /\ \A c \in Clients : WF_both(OfProxy(Doit(c)))
  /\ \A e \in Ends : WF_both(OfProxy(PeerEnds(e)))
  /\ WF_both(OfRio(Proceeds))
  /\ WF_both(OfRio(Hangs))
=============================================================================
