------------------------------ MODULE TreeWalk ------------------------------
(***************************************************************************)
(* What a FilesystemIterator promises the code that loops over it: each    *)
(* wanted entry at most once and after its directory, and an end without   *)
(* an error only when nothing that is still there was left out.            *)
(***************************************************************************)
EXTENDS SourceTree

VARIABLES
  visited,   \* the entries shown so far
  present,   \* the entries that exist
  result     \* "walking", "complete" or "error"

Init == visited = {} /\ present = Entries /\ result \in {"walking", "error"}

Show ==
  /\ result = "walking"
  /\ \E e \in NextEntries(visited) : visited' = visited \cup {e}
  /\ UNCHANGED <<present, result>>

Complete ==
  /\ result = "walking"
  /\ NextEntries(visited) \cap present = {}
  /\ result' = "complete"
  /\ UNCHANGED <<visited, present>>

Error ==
  /\ result = "walking"
  /\ result' = "error"
  /\ UNCHANGED <<visited, present>>

\* Another process removes a file or an empty directory.
Vanish ==
  /\ present' \subseteq present
  /\ UNCHANGED <<visited, result>>

Next == Show \/ Complete \/ Error \/ Vanish

Spec == Init /\ [][Next]_<<visited, present, result>>

=============================================================================
