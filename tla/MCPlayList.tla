----------------------------- MODULE MCPlayList -----------------------------
(***************************************************************************)
(* A list that ends, and one item in a loop, which is its own neighbour.   *)
(***************************************************************************)
EXTENDS PlayList

CONSTANTS a, b, wechat

MCCallers == {list, wechat}
MCUrls == {a, b}
MCLists == {
  [items |-> <<a, b>>, mode |-> "ALL", has_callback |-> FALSE],
  [items |-> <<a>>, mode |-> "ALL_LOOP", has_callback |-> TRUE]}
=============================================================================
