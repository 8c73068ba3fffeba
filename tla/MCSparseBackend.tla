----------------------------- MODULE MCSparseBackend -----------------------------
(* Batches of up to three requests, decodes in front: one or two tokens of each  *)
(* decode, lengths that fill the workspace and lengths that share it.            *)
EXTENDS SparseBackend

Kinds == { k \in [query : 1 .. 4, seq : {1, 2, 4}] : k.query <= k.seq }

MayDecode(k) == k.query <= Threshold

Batches ==
  { b \in UNION { [1 .. n -> Kinds] : n \in 1 .. 3 } :
      \A j \in 1 .. Len(b) - 1 : MayDecode(b[j + 1]) => MayDecode(b[j]) }

Short == { b \in Batches : Len(b) <= 2 }

Served ==
  [heads : {4}, ranks : {1}, fp8 : {TRUE}, batch : Batches]
    \cup [heads : {1, 2}, ranks : {1}, fp8 : {TRUE}, batch : Short]
    \cup [heads : {2}, ranks : {1}, fp8 : {FALSE}, batch : Short]
    \* Context parallelism as deployed: few heads per rank, as many ranks as fill 64.
    \cup [heads : {1}, ranks : {4}, fp8 : {TRUE}, batch : Short]
    \* Many heads per rank, decodes only.
    \cup [heads : {4}, ranks : {2}, fp8 : {TRUE},
          batch : { b \in Batches : \A j \in 1 .. Len(b) : b[j].query = b[1].query
                                                          /\ MayDecode(b[1]) }]
    \cup [heads : {2}, ranks : {2}, fp8 : {FALSE}, batch : { b \in Batches : Len(b) = 1 }]

\* Many heads per rank under context parallelism, prefills only.
Prefills ==
  [heads : {4}, ranks : {2}, fp8 : {TRUE}, batch : { b \in Batches : ~MayDecode(b[1]) }]

\* By position, against it, and with the positions of two ranks apart.
ThreeOrders == {<<0, 1, 2, 3>>, <<3, 2, 1, 0>>, <<1, 3, 0, 2>>}

=============================================================================
