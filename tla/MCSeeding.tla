------------------------------ MODULE MCSeeding ------------------------------
(* A start and its end, a note without external id, an item that repeats the
   external id of the start and a child of it. *)
EXTENDS Seeding

item(ref, parentRef, externalID) == [ref |-> ref, parentRef |-> parentRef, externalID |-> externalID]

MCFixture ==
    <<item("start", "", "x1"), item("note", "start", ""), item("end", "", "x2"),
      item("again", "", "x1"), item("link", "again", "x3")>>
=============================================================================
