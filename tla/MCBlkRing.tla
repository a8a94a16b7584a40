------------------------------ MODULE MCBlkRing ------------------------------
(* BlkRing with a cache of three pages, an image of four sectors and pages  *)
(* of two sectors.                                                          *)
EXTENDS BlkRing

CONSTANTS d1, d2, d3, p1, p2, f1, f2, f3, t1, t2, zero

MCInitialImage == [s \in Sector |-> <<"disk", s>>]
MCInitialMemory == [f \in Frame |-> [o \in 0 .. 1 |-> <<f, o>>]]
MCContent == {zero} \cup {<<"disk", s>> : s \in 0 .. 3} \cup {<<f, o>> : f \in Frame, o \in 0 .. 1}

MCInitialGrants == d1 :> f1 @@ d2 :> f2 @@ d3 :> f3 @@ p1 :> t1 @@ p2 :> t2
(* The frontend may exchange one indirect page. *)
MCRegrants == [g \in Gref |-> IF g = p1 THEN {t1, t2} ELSE {}]
NoRegrants == [g \in Gref |-> {}]

Seg(g, first, last) == [gref |-> g, first_sect |-> first, last_sect |-> last]

(* The frontend's indirect pages. *)
MCTable == t1 :> <<Seg(d1, 0, 0), Seg(d2, 0, 1)>> @@ t2 :> <<Seg(d3, 1, 1), Seg(d1, 0, 0)>>

Request(operation, sector_number) ==
  [id |-> 0, operation |-> operation, indirect_op |-> "none", sector_number |-> sector_number,
   nr_segments |-> 0, seg |-> <<>>, indirect_grefs |-> <<>>, nr_sectors |-> 0]
Direct(operation, sector_number, s) ==
  [Request(operation, sector_number) EXCEPT !.nr_segments = Len(s), !.seg = s]
Indirect(operation, sector_number, nr, grefs) ==
  [Request("INDIRECT", sector_number) EXCEPT
     !.indirect_op = operation, !.nr_segments = nr, !.indirect_grefs = grefs]
DiscardRequest(sector_number, nr) ==
  [Request("DISCARD", sector_number) EXCEPT !.nr_sectors = nr]

TransferWorkload ==
  {Indirect("READ", 0, 3, <<p1, p2>>),
   Indirect("WRITE", 0, 3, <<p1, p2>>),
   Direct("READ", 3, <<Seg(d3, 0, 0), Seg(d2, 0, 0)>>),
   Direct("WRITE", 1, <<Seg(d3, 0, 1)>>),
   Request("FLUSH_DISKCACHE", 0),
   DiscardRequest(1, 2)}

(* Refused at once; refused or past the end after a segment that was done;   *)
(* barriers, unknown operations and discards; segments and sector numbers    *)
(* that only a validation would refuse.                                      *)
OddWorkload ==
  {Indirect("WRITE", 0, 0, <<>>),
   Indirect("WRITE", 0, 4, <<p1, p2>>),
   Indirect("DISCARD", 0, 1, <<p1>>),
   Indirect("READ", 0, 3, <<p1, p2>>),
   Direct("READ", 0, <<>>),
   Direct("WRITE", 0, <<Seg(d1, 0, 0), Seg(d2, 0, 0), Seg(d3, 0, 0)>>),
   Direct("WRITE", 2, <<Seg(d1, 0, 0), Seg(d2, 0, 1)>>),
   Request("WRITE_BARRIER", 0),
   Request("PACKET", 0),
   DiscardRequest(3, 2), DiscardRequest(3, 1), DiscardRequest(14, 3),
   Direct("READ", 15, <<Seg(d2, 0, 1)>>),
   Direct("READ", 1, <<Seg(d3, 1, 0), Seg(d1, 1, 1)>>),
   Direct("WRITE", 1, <<Seg(d3, 1, 0), Seg(d1, 1, 2)>>)}
=============================================================================
