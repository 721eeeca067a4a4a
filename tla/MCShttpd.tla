------------------------------ MODULE MCShttpd ------------------------------
(* Instances of Shttpd for TLC.                                            *)
EXTENDS Shttpd, TLC

CONSTANTS c1, c2

(* Requests: a file kept alive, a file whose Connection lines disagree, and *)
(* one whose header does not end.                                          *)
Kept == [first |-> "1.1", lines |-> <<"host", "other">>, url |-> "file"]
Once == [first |-> "1.1", lines |-> <<"keep-alive", "host", "close">>, url |-> "file"]
TheLong == [first |-> "1.1", lines |-> <<>>, url |-> "missing"]

TheFiles == [file |-> [kind |-> "file", size |-> 2],
             missing |-> [kind |-> "missing", size |-> 0]]

TheClients == {c1, c2}
TheRequests == (c1 :> {Kept, TheLong}) @@ (c2 :> {Once})
TheLimit == (c1 :> 2) @@ (c2 :> 1)
=============================================================================
