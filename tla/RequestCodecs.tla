--------------------------- MODULE RequestCodecs ---------------------------
(***************************************************************************)
(* codecs.py, Predictor.prepare and the /invocations handler from the body *)
(* on: what a request is answered with.  A body is reduced to the checks   *)
(* it would pass or fail.                                                  *)
(***************************************************************************)
EXTENDS Integers, Sequences

Media == {"json", "csv", "jsonlines"}

Layouts == {"instances", "dataframe_records", "list", "dataframe_split", "inputs", "other"}

\* parses: as the media type it is sent as; fits: widths agree; complete:
\* every feature is named; headed: its first csv row is the feature names;
\* scorable: the pipeline takes the cells.
Body == [size: {"empty", "small", "large"}, parses: BOOLEAN, layout: Layouts,
         items: {"none", "objects", "arrays", "mixed"}, fits: BOOLEAN, complete: BOOLEAN,
         headed: BOOLEAN, rows: 0..1, scorable: BOOLEAN]

\* declared: the Content-Length header; media: the Content-Type, "none" when
\* absent; header: its header=present; decodes: the bytes are text in its
\* charset; accept: the Accept header in order, <<>> when absent.
Request == [declared: {"none", "small", "large"}, media: Media \cup {"none", "other"},
            header: BOOLEAN, decodes: BOOLEAN, accept: Seq(Media \cup {"any", "other"}),
            body: Body]

\* The outcome of decoding: a frame, or the status the attempt ends with.
Frame(complete, rows) == [status |-> 200, complete |-> complete, rows |-> rows]
Refused(status)       == [status |-> status, complete |-> FALSE, rows |-> 0]

\* Mutant: the feature names are scored as a row.
DecodeCsvHeaderAsRow(b, header) ==
  IF ~b.parses \/ (~header /\ ~b.fits) THEN Refused(400) ELSE Frame(~header \/ b.complete, b.rows)

DecodeCsv(b, header) ==
  CASE ~b.parses                      -> Refused(400)
    [] b.parses /\ header             -> Frame(b.complete, b.rows)
    [] b.parses /\ ~header /\ ~b.fits -> Refused(400)
    [] OTHER -> IF b.headed THEN Refused(400) ELSE Frame(TRUE, b.rows)

\* _records_or_rows
RecordsOrRows(b) ==
  CASE b.items = "objects"           -> Frame(b.complete, b.rows)
    [] b.items = "arrays" /\ b.fits  -> Frame(TRUE, b.rows)
    [] OTHER                         -> Refused(400)

\* What dataframe_split and inputs carry goes to the pandas constructor as it
\* is; what that does not take is no CodecError.
Constructed(b) == IF b.fits THEN Frame(b.complete, b.rows) ELSE Refused(500)

DecodeJson(b) ==
  CASE ~b.parses \/ b.layout = "other"                              -> Refused(400)
    [] b.parses /\ b.layout \in {"instances", "dataframe_records", "list"} -> RecordsOrRows(b)
    [] b.parses /\ b.layout = "dataframe_split" /\ b.items = "none" -> Refused(400)
    [] OTHER                                                        -> Constructed(b)

DecodeJsonlines(b) == IF b.parses THEN RecordsOrRows(b) ELSE Refused(400)

\* parse_media_type
MediaType(r) == IF r.media = "none" THEN "csv" ELSE r.media

DecodeText(r) ==
  CASE MediaType(r) = "csv"       -> DecodeCsv(r.body, r.header)
    [] MediaType(r) = "json"      -> DecodeJson(r.body)
    [] MediaType(r) = "jsonlines" -> DecodeJsonlines(r.body)
    [] OTHER                      -> Refused(415)

\* The text is decoded before the media type is looked at.
DecodeRequest(r) ==
  CASE r.body.size = "empty"                 -> Refused(400)
    [] r.body.size # "empty" /\ ~r.decodes   -> Refused(500)
    [] OTHER                                 -> DecodeText(r)

Acceptable(r) ==
  r.accept = <<>> \/ \E i \in DOMAIN r.accept : r.accept[i] \in Media \cup {"any"}

\* The first type offered that is supported; json for a wildcard anywhere.
NegotiateAccept(accept) ==
  IF accept = <<>> \/ \E i \in DOMAIN accept : accept[i] = "any" THEN "json"
  ELSE accept[CHOOSE i \in DOMAIN accept :
                accept[i] \in Media /\ \A j \in 1..(i - 1) : accept[j] \notin Media]

\* Predictor.prepare, and the pipeline's own objections.
Predict(r, frame) ==
  CASE frame.status # 200                                           -> frame.status
    [] frame.status = 200 /\ (~frame.complete \/ frame.rows = 0)    -> 400
    [] OTHER                                                        -> IF r.body.scorable THEN 200 ELSE 500

Answer(status, media) == [status |-> status, media |-> media]

\* Errors are always json.
Invocation(r) ==
  LET status == Predict(r, DecodeRequest(r))
  IN  CASE r.body.size = "large"                     -> Answer(413, "json")
        [] r.body.size # "large" /\ ~Acceptable(r)   -> Answer(406, "json")
        [] OTHER -> Answer(status, IF status = 200 THEN NegotiateAccept(r.accept) ELSE "json")
=============================================================================
