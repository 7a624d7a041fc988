------------------------------ MODULE MCLogPush ------------------------------
(* Payloads of up to three records of two projects, with sizes that add up *)
(* to less than the maximum of the integration tests, or to just that, or  *)
(* reach it alone; one byte tells the size of some, two that of others.    *)
(* The first record is of project a, which loses no case, as the projects  *)
(* are alike; and the second of three is a small one of the other.         *)
EXTENDS LogPush

MCMaxRequestSize == 550
Record(sizes) == [project : {"a", "b"}, size : sizes, ok : {TRUE}]
Small(p) == [project |-> p, size |-> 100, ok |-> TRUE]
Unmapped == [Small("a") EXCEPT !.ok = FALSE]

MCPayloads ==
    {d \in UNION {[1..n -> Record({100, 275, 449})] : n \in 0..3} :
        /\ \A k \in DOMAIN d \cap {1} : d[k].project = "a"
        /\ Len(d) = 3 => d[2] = Small("b") /\ d[3].project = "a"}
        \cup {<<Unmapped>>, <<Small("a"), Unmapped>>}
MCLargePayloads == UNION {[1..n -> Record({100, 550})] : n \in 1..2}
=============================================================================
