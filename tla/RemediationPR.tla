--------------------------- MODULE RemediationPR ---------------------------
(***************************************************************************)
(* What CreateRemediationPR promises the people who review its pull        *)
(* requests: a request publishes at most one pull request, with the file   *)
(* and the contents it was asked for, in one step; a published pull        *)
(* request never changes.  The code needs six calls of GitHub for it, and  *)
(* any number of requests run at once: Healing implements this module.     *)
(***************************************************************************)
EXTENDS Sequences

CONSTANTS
  Files,      \* the files of the repositories ("owner/name" and path)
  Contents    \* what a file may hold

VARIABLE published   \* the pull requests: the file each changes, and to what

Init == published = << >>

Publish(f, x) == published' = Append(published, [file |-> f, content |-> x])

Next == \E f \in Files, x \in Contents : Publish(f, x)

Spec == Init /\ [][Next]_published
=============================================================================
