------------------------------- MODULE Helper -------------------------------
(***************************************************************************)
(* The pure helper of the airport simulation (offline_2/helper.h) that the *)
(* two pools of slots, the kiosks and the belts, are built on.  An array   *)
(* of n bools is a function on 0 .. n - 1.  Also the vocabulary the models *)
(* of its threads share.                                                   *)
(***************************************************************************)
EXTENDS Integers

\* The indices that hold elem.
IndicesOf(arr, n, elem) == {i \in 0 .. n - 1 : arr[i] = elem}

\* get_idx(arr, n, elem): the index of the first occurrence, -1 if none.
get_idx(arr, n, elem) ==
    LET found == IndicesOf(arr, n, elem)
    IN  IF found = {} THEN -1
        ELSE CHOOSE i \in found : \A j \in found : i <= j

\* The threads whose program counter is at one of the labels.
ThreadsAt(threads, at, labels) == {t \in threads : at[t] \in labels}
=============================================================================
