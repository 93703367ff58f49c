------------------------------ MODULE GoSlices ------------------------------
(***************************************************************************)
(* The idiom of Go with which the queues of this repository lose an entry: *)
(* a range loop that finds it, append(list[:i], list[i+1:]...), and a      *)
(* break.                                                                  *)
(***************************************************************************)
EXTENDS Naturals, SequencesExt

Without(list, e) ==
  IF \E i \in 1 .. Len(list) : list[i] = e
  THEN RemoveAt(list, CHOOSE i \in 1 .. Len(list) : list[i] = e)
  ELSE list

=============================================================================
