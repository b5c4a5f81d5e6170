--------------------------- MODULE MCModelServing ---------------------------
(***************************************************************************)
(* Instances of ModelServing for TLC: two csv files of which one holds a   *)
(* single class, the packages that can go wrong in one way each, and       *)
(* requests that differ from a good one in at most two respects.           *)
(***************************************************************************)
EXTENDS ModelServing

CONSTANTS mixed, single, w

TwoFiles   == {mixed, single}
TheCells   == [f \in TwoFiles |-> IF f = mixed THEN {"0", "1"} ELSE {"1"}]
OneWorker  == {w}

HyperOf(label, valid, split) == [label |-> label, valid |-> valid, split |-> split]
SomeHypers == {HyperOf("1", TRUE, TRUE), HyperOf("true", TRUE, FALSE), HyperOf("null", TRUE, TRUE),
               HyperOf("1", FALSE, TRUE), HyperOf("yes", TRUE, TRUE)}

FitOf(rows) == [rows |-> rows, split |-> TRUE, label |-> "1"]
MetadataOf(is, rows) == [is |-> is, sha |-> FitOf(rows), fit |-> FitOf(rows), on |-> rows]
Package(model, rows, metadata) == [model |-> [is |-> model, fit |-> FitOf(rows)], metadata |-> metadata]

SomePackages ==
  {Package("whole", TwoFiles, MetadataOf("whole", TwoFiles)),
   Package("partial", TwoFiles, MetadataOf("whole", TwoFiles)),
   Package("whole", {mixed}, MetadataOf("whole", TwoFiles)),
   Package("whole", TwoFiles, MetadataOf("partial", TwoFiles)),
   Package("whole", TwoFiles, NoTree.metadata),
   [model |-> NoTree.model, metadata |-> MetadataOf("whole", TwoFiles)]}

GoodBody == [size |-> "small", parses |-> TRUE, layout |-> "instances", items |-> "objects",
             fits |-> TRUE, complete |-> TRUE, headed |-> FALSE, rows |-> 1, scorable |-> TRUE]

Good(media) == [declared |-> "small", media |-> media, header |-> FALSE, decodes |-> TRUE,
                accept |-> <<>>, body |-> GoodBody]

\* What can be different about a request.
Variants(r) ==
  {[r EXCEPT !.declared = d] : d \in {"none", "large"}}
  \cup {[r EXCEPT !.header = TRUE], [r EXCEPT !.decodes = FALSE]}
  \cup {[r EXCEPT !.accept = a] : a \in {<<"csv">>, <<"other">>, <<"other", "jsonlines", "csv">>, <<"csv", "any">>}}
  \cup {[r EXCEPT !.body.size = z] : z \in {"empty", "large"}}
  \cup {[r EXCEPT !.body.layout = l] : l \in Layouts \ {"instances"}}
  \cup {[r EXCEPT !.body.items = i] : i \in {"none", "arrays", "mixed"}}
  \cup {[r EXCEPT !.body.parses = FALSE], [r EXCEPT !.body.fits = FALSE],
        [r EXCEPT !.body.complete = FALSE], [r EXCEPT !.body.headed = TRUE],
        [r EXCEPT !.body.rows = 0], [r EXCEPT !.body.scorable = FALSE]}

Bases == {Good(m) : m \in Media \cup {"none", "other"}}

Twice == Bases \cup UNION {Variants(r) : r \in Bases} \cup UNION {Variants(q) : q \in UNION {Variants(r) : r \in Bases}}

SomeRequests(where) == IF where = "hosting" THEN Twice ELSE {}
=============================================================================
