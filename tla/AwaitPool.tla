----------------------------- MODULE AwaitPool -----------------------------
(***************************************************************************)
(* What a pipeline and JavaScript agree on about work that takes time.  A  *)
(* request belongs to a build.  It is asked once; when its result is there *)
(* it may be collected, once; when it is called for earlier it is lost,    *)
(* and nothing is asked in that build any more.  At most one request of a  *)
(* build is open at a time.                                                *)
(***************************************************************************)
EXTENDS Naturals

VARIABLES
  epoch,    \* the number of the present build
  status    \* request, <<epoch, asker>> -> what became of it

vars == <<epoch, status>>

Open(r) == status[r] \in {"pending", "fulfilled"}

Init == epoch = 0 /\ status = [r \in {} |-> "pending"]

\* A new build remembers only what JavaScript still has.
NewBuild ==
  /\ epoch' = epoch + 1
  /\ status' = [r \in {x \in DOMAIN status : Open(x)} |-> status[r]]

Ask ==
  /\ \A r \in DOMAIN status : r[1] = epoch => status[r] = "collected"
  /\ \E r \in DOMAIN status' \ DOMAIN status :
       /\ r[1] = epoch
       /\ status' = [x \in DOMAIN status \cup {r} |-> IF x = r THEN "pending" ELSE status[x]]
  /\ UNCHANGED epoch

\* From one status to another, nothing else moves.
Becomes(before, after) ==
  /\ \E r \in DOMAIN status :
       /\ status[r] = before
       /\ before = "fulfilled" \/ after = "lost" => r[1] = epoch
       /\ status' = [status EXCEPT ![r] = after]
  /\ UNCHANGED epoch

Next ==
  \/ NewBuild \/ Ask
  \/ Becomes("pending", "fulfilled")
  \/ Becomes("fulfilled", "collected")
  \/ Becomes("pending", "lost")

Spec == Init /\ [][Next]_vars
=============================================================================
