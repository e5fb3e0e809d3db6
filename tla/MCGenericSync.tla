--------------------------- MODULE MCGenericSync ---------------------------
(* Small instances of GenericSync: the rows there are and the payloads. *)
EXTENDS GenericSync

CONSTANTS etl, oth, a, b, e1, e2, h, system, device

Id(k) == <<k, 1>>
Row(type, owner) == [live |-> TRUE, n |-> 1, type |-> type, status |-> "active", owner |-> owner]
NoRow == [live |-> FALSE, n |-> 0, type |-> system, status |-> "active", owner |-> Null]
Human == <<Null, h>>
MCAssets == [k \in AssetKeys |->
    CASE k = Human -> Row(system, Null)
      [] k = <<etl, a>> -> Row(system, Id(Human))
      [] k = <<etl, b>> -> Row(system, Null)
      [] OTHER -> NoRow]
EdgeOf(f, t) == [live |-> TRUE, n |-> 1, from |-> Id(f), to |-> Id(t)]
MCEdges == [k \in EdgeKeys |->
    CASE k = <<etl, e1>> -> EdgeOf(<<etl, a>>, <<etl, b>>)
      [] k = <<Null, e1>> -> EdgeOf(<<etl, b>>, Human)
      [] OTHER -> [live |-> FALSE, n |-> 0, from |-> Null, to |-> Null]]

MCBearers == [n \in {h} |-> {Human, <<oth, a>>}]

Rec(ref, type, owner) == [ref |-> ref, type |-> type, status |-> "active", owner |-> owner]
Link(ref, f, t) == [ref |-> ref, from |-> f, to |-> t]
Payload(source, recs, related, links, missing) ==
    [source |-> source, assets |-> recs, related |-> related, edges |-> links,
     missing |-> missing, dry |-> FALSE]

\* All there is, owned, in one order; a part of it in the other modes.
Full == Payload(etl, <<Rec(b, system, h), Rec(a, system, Null)>>, TRUE, <<Link(e2, b, h)>>, "archive")
Replace == Payload(etl, <<Rec(a, system, h)>>, TRUE, <<Link(e1, a, b), Link(e2, a, h)>>, "delete")
Page == Payload(etl, <<Rec(a, system, Null), Rec(b, system, Null)>>, FALSE, << >>, "ignore")
Shrink == Payload(etl, <<Rec(a, system, Null)>>, FALSE, << >>, "archive")
Wire == Payload(etl, << >>, TRUE, <<Link(e1, a, a), Link(e2, b, h)>>, "ignore")
Other == Payload(oth, <<Rec(a, system, h)>>, TRUE, <<Link(e1, a, h)>>, "delete")
Preview == [Replace EXCEPT !.dry = TRUE]
Retyped == Payload(etl, <<Rec(a, device, Null), Rec(b, system, Null)>>, FALSE, << >>, "archive")

MCPosts == {Full, Replace, Page, Wire, Other, Shrink, Preview}
RetypedPosts == {Page, Retyped}
=============================================================================
