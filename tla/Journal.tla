------------------------------- MODULE Journal -------------------------------
(***************************************************************************)
(* What a session log promises its users: at any moment at most one        *)
(* process owns it, only the owner adds events, and an added event is      *)
(* never removed, replaced or hidden.  SpineLock implements it as long as  *)
(* hosts open the session one after another and no crash tears a line.     *)
(***************************************************************************)
EXTENDS Sequences

CONSTANTS Proc, NoProc

VARIABLES
  owner,    \* the process that owns the session, or NoProc
  journal   \* the authors of the events a replay shows, in order

jvars == <<owner, journal>>

JInit == owner = NoProc /\ journal = <<>>

Acquire(p) == owner = NoProc /\ owner' = p /\ UNCHANGED journal

Record(p) == owner = p /\ journal' = Append(journal, p) /\ UNCHANGED owner

(* The owner closes the session, crashes, or gives up on a failing disk.   *)
Leave(p) == owner = p /\ owner' = NoProc /\ UNCHANGED journal

JNext == \E p \in Proc : Acquire(p) \/ Record(p) \/ Leave(p)

JSpec == JInit /\ [][JNext]_jvars
=============================================================================
