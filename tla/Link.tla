-------------------------------- MODULE Link --------------------------------
(***************************************************************************)
(* What every reconciler with a finalizer promises about the objects it    *)
(* keeps and the records it links them to in Pangolin, whatever fails:     *)
(* records are created only while an object holds the finalizer, a status  *)
(* links only records that were handed out, and an object that holds the   *)
(* finalizer goes only after a deletion was asked for and the record it    *)
(* links is gone.                                                          *)
(*                                                                         *)
(* PublicResource, PrivateResource and NewtSite implement it, each under a *)
(* mapping of its own.                                                     *)
(***************************************************************************)
EXTENDS Naturals

CONSTANT Object

VARIABLES
  phase,   \* where each object is in its life
  link,    \* the identifier its status holds, 0 for none
  remote,  \* identifiers of the records in Pangolin
  issued,  \* the next identifier Pangolin hands out
  asked    \* creations that were asked for and may still take effect

vars == <<phase, link, remote, issued, asked>>

\* free: without the finalizer; held: with it; doomed: with it, and deleted.
Phase == {"absent", "free", "held", "doomed"}

Holding == {o \in Object : phase[o] \in {"held", "doomed"}}

Move(o, from, to) == phase[o] = from /\ phase' = [phase EXCEPT ![o] = to]

Appear(o) == Move(o, "absent", "free") /\ UNCHANGED <<link, remote, issued, asked>>
Vanish(o) == Move(o, "free", "absent") /\ UNCHANGED <<link, remote, issued, asked>>
Hold(o)   == Move(o, "free", "held")   /\ UNCHANGED <<link, remote, issued, asked>>
Doom(o)   == Move(o, "held", "doomed") /\ UNCHANGED <<link, remote, issued, asked>>

\* A record is created for some object that holds the finalizer.
Create == remote' = remote \cup {issued} /\ issued' = issued + 1

Provision ==
  /\ Holding # {}
  /\ Create
  /\ UNCHANGED <<phase, link, asked>>

\* A creation whose answer does not come, and that takes effect later.
Ask  == Holding # {} /\ asked' = asked + 1 /\ UNCHANGED <<phase, link, remote, issued>>
Land == asked > 0 /\ asked' = asked - 1 /\ Create /\ UNCHANGED <<phase, link>>

\* The status links a record that exists or existed, or none.
LinkTo(o, id) ==
  /\ o \in Holding
  /\ id < issued
  /\ link' = [link EXCEPT ![o] = id]
  /\ UNCHANGED <<phase, remote, issued, asked>>

\* Records go: cleanup, a rollback, or somebody else in Pangolin; and what belongs
\* to a record goes with it.
Lose ==
  /\ UNCHANGED <<phase, link, issued, asked>>
  /\ remote' \subseteq remote

Release(o) ==
  /\ link[o] \notin remote
  /\ Move(o, "doomed", "absent")
  /\ link' = [link EXCEPT ![o] = 0]
  /\ UNCHANGED <<remote, issued, asked>>

Init ==
  /\ phase = [o \in Object |-> "absent"]
  /\ link = [o \in Object |-> 0]
  /\ issued \in Nat \ {0}
  /\ remote \subseteq 1..(issued - 1)
  /\ asked = 0

Next ==
  \/ Lose \/ Provision \/ Ask \/ Land
  \/ \E o \in Object :
       \/ \E id \in 0..(issued - 1) : LinkTo(o, id)
       \/ Appear(o) \/ Vanish(o) \/ Hold(o) \/ Doom(o) \/ Release(o)

Spec == Init /\ [][Next]_vars
=============================================================================
