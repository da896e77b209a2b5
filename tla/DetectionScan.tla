---------------------------- MODULE DetectionScan ----------------------------
(***************************************************************************)
(* One call of detect_penetration_attempt: the query parameters, the path, *)
(* the headers and the body of a request are handed value by value to the  *)
(* pattern engine, JSON documents are walked with an explicit stack, and   *)
(* two budgets bound how much of the request is looked at.                 *)
(*                                                                         *)
(* The coroutine's call stack and the JSON walk's own stack are one        *)
(* sequence of frames, the next one to run at its head.  A node is a value *)
(* of the request: a leaf (a string or a scalar), or a dict or list with   *)
(* items.  A leaf whose text is itself a JSON container has it in inner.  *)
(* What the engine makes of a text is its field mark: nothing, a pattern   *)
(* match, or a meaning only the semantic analysis sees.                    *)
(***************************************************************************)
EXTENDS Integers, Sequences, SequencesExt

CONSTANTS DsScans,       \* requests being scanned
          DsCases        \* [faulty, request, setting]: whether detect() may raise,
                         \* the request of each scan there is, and the
                         \* configuration [values, chars, depth, semantic] it
                         \* is called with

DsNone == "none"

VARIABLES dsFaulty,   \* whether this deployment's engine may raise
          request,    \* request[s]: the request s scans
          setting,    \* setting[s]: the configuration s was called with
          engine,     \* the configuration the pattern singleton was built from
          dsAt,       \* dsAt[s]: "idle", "surface", "reading", "body", "done"
          frames,     \* frames[s]: what is left to do, next first
          admitted,   \* admitted[s]: the texts the budgets let through, in order
          exact,      \* exact[s]: every detect() ran, on s's own configuration
          outcome     \* outcome[s]: "none", "hit", "clean", "unread", "raised"

dsVars == <<dsFaulty, request, setting, engine, dsAt, frames, admitted, exact,
            outcome>>

-----------------------------------------------------------------------------
\* Nodes, and the text a node becomes when it is serialised.

Worse(m, n) == IF "pattern" \in {m, n} THEN "pattern"
               ELSE IF "meaning" \in {m, n} THEN "meaning" ELSE "no"

\* outright: a finding by itself, whatever the budgets (a Mongo operator key, a
\* header the always-scan patterns match).
Key(mark, excluded, outright) ==
    [mark |-> mark, size |-> 1, excluded |-> excluded, outright |-> outright]

Leaf(mark, size) ==
    [kind |-> "leaf", mark |-> mark, size |-> size, items |-> <<>>, inner |-> <<>>]

Plain(key) == Leaf(key.mark, key.size)

\* The text of a container holds the text of everything in it.
Container(kind, items) ==
    [kind |-> kind, items |-> items, inner |-> <<>>,
     mark |-> FoldLeft(LAMBDA m, i : Worse(m, Worse(i.key.mark, i.node.mark)),
                       "no", items),
     size |-> FoldLeft(LAMBDA n, i : n + i.key.size + i.node.size, 0, items)]

\* A string that json.loads turns into the given container.
Text(doc) == [doc EXCEPT !.kind = "leaf", !.items = <<>>, !.inner = <<doc>>]

-----------------------------------------------------------------------------
\* Frames.

\* Check one value.  embedded: look for JSON in it; honoured: that JSON's
\* excluded keys are skipped (form fields and nested values do not pass the
\* exclusions on).
Check(node, embedded, honoured) ==
    [do |-> "check", node |-> node, embedded |-> embedded, honoured |-> honoured,
     depth |-> 0, key |-> DsNone]

Detecting(node) == [Check(node, FALSE, FALSE) EXCEPT !.do = "detect"]

Visit(node, depth, embedded, honoured) ==
    [Check(node, embedded, honoured) EXCEPT !.do = "visit", !.depth = depth]

Entry(key, node, depth, embedded, honoured) ==
    [Visit(node, depth, embedded, honoured) EXCEPT !.do = "entry", !.key = key]

Always(key) == [Check(Plain(key), FALSE, FALSE) EXCEPT !.do = "always", !.key = key]

\* A name and its value; an excluded name hides both.
Named(part, honoured) ==
    IF part.key.excluded THEN <<>>
    ELSE <<Check(Plain(part.key), FALSE, FALSE), Check(part.node, TRUE, honoured)>>

\* An excluded header still passes the always-scan check, and is scanned as
\* usual unless no category is left for it.
Header(part) ==
    (IF part.key.excluded THEN <<Always(part.key)>> ELSE <<>>)
    \o (IF part.key.excluded /\ part.skipped THEN <<>>
        ELSE <<Check(Plain(part.key), FALSE, FALSE), Check(part.node, TRUE, TRUE)>>)

SurfaceFrames(req) ==
    FlattenSeq([i \in DOMAIN req.query |-> Named(req.query[i], TRUE)])
    \o <<Check(req.path, TRUE, TRUE)>>
    \o FlattenSeq([i \in DOMAIN req.headers |-> Header(req.headers[i])])

FormFrames(parts) == FlattenSeq([i \in DOMAIN parts |-> Named(parts[i], FALSE)])

\* Form and multipart bodies are lists of named values; a JSON container is
\* walked; anything else is one value.
BodyFrames(body) ==
    IF body.type = "form" THEN FormFrames(body.parts)
    ELSE IF body.type = "json" /\ body.whole.inner # <<>>
         THEN <<Visit(Head(body.whole.inner), 1, FALSE, TRUE)>>
    ELSE <<Check(body.whole, FALSE, FALSE)>>

-----------------------------------------------------------------------------
\* Budgets.

Sizes(texts) == FoldLeft(LAMBDA n, t : n + t.size, 0, texts)

\* Variant: the last value of the budget is refused.
BudgetLeftShort(texts, conf) ==
    Len(texts) + 1 < conf.values /\ Sizes(texts) < conf.chars

\* The value that crosses the character cap is still scanned whole.
BudgetLeft(texts, conf) == Len(texts) < conf.values /\ Sizes(texts) < conf.chars

\* What the pattern engine reports for a text, built from a configuration.
Detects(conf, node) ==
    node.mark = "pattern" \/ (node.mark = "meaning" /\ conf.semantic)

-----------------------------------------------------------------------------
DsInit ==
    /\ \E case \in DsCases :
          /\ dsFaulty = case.faulty
          /\ request = case.request
          /\ setting = case.setting
    /\ engine = DsNone
    /\ dsAt = [s \in DsScans |-> "idle"]
    /\ frames = [s \in DsScans |-> <<>>]
    /\ admitted = [s \in DsScans |-> <<>>]
    /\ exact = [s \in DsScans |-> TRUE]
    /\ outcome = [s \in DsScans |-> "none"]

Finish(s, result) ==
    /\ outcome' = [outcome EXCEPT ![s] = result]
    /\ dsAt' = [dsAt EXCEPT ![s] = "done"]
    /\ frames' = [frames EXCEPT ![s] = <<>>]

Top(s) == Head(frames[s])

Replace(s, with) == frames' = [frames EXCEPT ![s] = with \o Tail(@)]

\* detect_penetration_attempt: configure the singleton when it was built from
\* another configuration, then start with fresh budgets.
Detect(s) ==
    /\ dsAt[s] = "idle"
    /\ s \in DOMAIN request
    /\ dsAt' = [dsAt EXCEPT ![s] = "surface"]
    /\ engine' = setting[s]
    /\ frames' = [frames EXCEPT ![s] = SurfaceFrames(request[s])]
    /\ UNCHANGED <<dsFaulty, request, setting, admitted, exact, outcome>>

\* _check_value_enhanced up to detect(): the budgets first, then the JSON the
\* value may hold.
CheckValue(s) ==
    /\ frames[s] # <<>>
    /\ Top(s).do = "check"
    /\ LET f == Top(s)
       IN  IF ~BudgetLeft(admitted[s], setting[s])
           THEN Replace(s, <<>>) /\ UNCHANGED admitted
           ELSE /\ admitted' = [admitted EXCEPT ![s] = Append(@, f.node)]
                /\ Replace(s, (IF f.embedded /\ f.node.inner # <<>>
                               THEN <<Visit(Head(f.node.inner), 1, TRUE, f.honoured)>>
                               ELSE <<>>) \o <<Detecting(f.node)>>)
    /\ UNCHANGED <<dsFaulty, request, setting, engine, dsAt, exact, outcome>>

\* detect() answers from the singleton as it is now.
Answer(s) ==
    /\ frames[s] # <<>>
    /\ Top(s).do = "detect"
    /\ exact' = [exact EXCEPT ![s] = @ /\ engine = setting[s]]
    /\ IF Detects(engine, Top(s).node)
       THEN Finish(s, "hit")
       ELSE Replace(s, <<>>) /\ UNCHANGED <<dsAt, outcome>>
    /\ UNCHANGED <<dsFaulty, request, setting, engine, admitted>>

\* Variant: a failing engine counts as no finding.
FallbackClean(s) ==
    /\ dsFaulty
    /\ frames[s] # <<>>
    /\ Top(s).do = "detect"
    /\ exact' = [exact EXCEPT ![s] = FALSE]
    /\ Replace(s, <<>>)
    /\ UNCHANGED <<dsFaulty, request, setting, engine, dsAt, admitted, outcome>>

\* detect() raises: the fallback tries the patterns alone.
Fallback(s) ==
    /\ dsFaulty
    /\ frames[s] # <<>>
    /\ Top(s).do = "detect"
    /\ exact' = [exact EXCEPT ![s] = FALSE]
    /\ IF Top(s).node.mark = "pattern"
       THEN Finish(s, "hit")
       ELSE Replace(s, <<>>) /\ UNCHANGED <<dsAt, outcome>>
    /\ UNCHANGED <<dsFaulty, request, setting, engine, admitted>>

\* A RecursionError is not swallowed.
Recursion(s) ==
    /\ dsFaulty
    /\ frames[s] # <<>>
    /\ Top(s).do = "detect"
    /\ Finish(s, "raised")
    /\ UNCHANGED <<dsFaulty, request, setting, engine, admitted, exact>>

\* The always-scan check of an excluded header, outside the budgets.
CheckAlways(s) ==
    /\ frames[s] # <<>>
    /\ Top(s).do = "always"
    /\ IF Top(s).key.outright
       THEN Finish(s, "hit")
       ELSE Replace(s, <<>>) /\ UNCHANGED <<dsAt, outcome>>
    /\ UNCHANGED <<dsFaulty, request, setting, engine, admitted, exact>>

\* A dict's entry: an excluded key hides its value too, an operator key is a
\* finding, any other key is scanned before its value.
VisitEntry(s) ==
    /\ frames[s] # <<>>
    /\ Top(s).do = "entry"
    /\ LET f == Top(s)
       IN  IF f.honoured /\ f.key.excluded
           THEN Replace(s, <<>>) /\ UNCHANGED <<dsAt, outcome>>
           ELSE IF f.key.outright
           THEN Finish(s, "hit")
           ELSE /\ Replace(s, <<Check(Plain(f.key), FALSE, FALSE),
                               Visit(f.node, f.depth + 1, f.embedded, f.honoured)>>)
                /\ UNCHANGED <<dsAt, outcome>>
    /\ UNCHANGED <<dsFaulty, request, setting, engine, admitted, exact>>

\* What a container pushes on the stack: its items, the first on top.
Unfold(f) ==
    [i \in DOMAIN f.node.items |->
        IF f.node.kind = "dict"
        THEN Entry(f.node.items[i].key, f.node.items[i].node, f.depth, f.embedded,
                   f.honoured)
        ELSE Visit(f.node.items[i].node, f.depth + 1, f.embedded, f.honoured)]

\* Variant: the items are pushed in document order, so the last is on top.
VisitNodeBackwards(s) ==
    /\ frames[s] # <<>>
    /\ Top(s).do = "visit"
    /\ LET f == Top(s)
       IN  Replace(s, IF f.node.kind = "leaf"
                      THEN <<Check(f.node, f.embedded, FALSE)>>
                      ELSE IF f.depth >= setting[s].depth
                      THEN <<Check(Text(f.node), f.embedded, FALSE)>>
                      ELSE Reverse(Unfold(f)))
    /\ UNCHANGED <<dsFaulty, request, setting, engine, dsAt, admitted, exact, outcome>>

\* A value of a document: a leaf is checked, a container is unfolded, and one
\* at the depth cap is checked as the text it serialises to.
VisitNode(s) ==
    /\ frames[s] # <<>>
    /\ Top(s).do = "visit"
    /\ LET f == Top(s)
       IN  Replace(s, IF f.node.kind = "leaf"
                      THEN <<Check(f.node, f.embedded, FALSE)>>
                      ELSE IF f.depth >= setting[s].depth
                      THEN <<Check(Text(f.node), f.embedded, FALSE)>>
                      ELSE Unfold(f))
    /\ UNCHANGED <<dsFaulty, request, setting, engine, dsAt, admitted, exact, outcome>>

\* The surface is done: a body that is not to be scanned, or that has no
\* declared acceptable length and no bounded reader, ends the scan.
Readable(body) == body.scanned /\ (body.declared = "small" \/ body.bounded)

ReadBody(s) ==
    /\ dsAt[s] = "surface"
    /\ frames[s] = <<>>
    /\ LET body == request[s].body
       IN  IF Readable(body)
           THEN /\ dsAt' = [dsAt EXCEPT ![s] = "reading"]
                /\ UNCHANGED <<frames, outcome>>
           ELSE Finish(s, IF body.scanned THEN "unread" ELSE "clean")
    /\ UNCHANGED <<dsFaulty, request, setting, engine, admitted, exact>>

BodyArrives(s) ==
    /\ dsAt[s] = "reading"
    /\ dsAt' = [dsAt EXCEPT ![s] = "body"]
    /\ frames' = [frames EXCEPT ![s] = BodyFrames(request[s].body)]
    /\ UNCHANGED <<dsFaulty, request, setting, engine, admitted, exact, outcome>>

\* The read raises or times out.
BodyFails(s) ==
    /\ dsAt[s] = "reading"
    /\ Finish(s, "unread")
    /\ UNCHANGED <<dsFaulty, request, setting, engine, admitted, exact>>

BodyDone(s) ==
    /\ dsAt[s] = "body"
    /\ frames[s] = <<>>
    /\ Finish(s, "clean")
    /\ UNCHANGED <<dsFaulty, request, setting, engine, admitted, exact>>

DsNext ==
    \E s \in DsScans :
        \/ Detect(s) \/ CheckValue(s) \/ Answer(s) \/ Fallback(s) \/ Recursion(s)
        \/ CheckAlways(s) \/ VisitEntry(s) \/ VisitNode(s)
        \/ ReadBody(s) \/ BodyArrives(s) \/ BodyFails(s) \/ BodyDone(s)

DsSpec == DsInit /\ [][DsNext]_dsVars

-----------------------------------------------------------------------------
\* The reference: the texts of a request in reading order, by recursion on the
\* documents, and the finding that needs no budget (Outright) in its place.

Outright == [kind |-> "outright", mark |-> "no", size |-> 0]

RECURSIVE Reads(_, _, _, _, _), Holds(_, _, _, _)

\* A document's texts at a depth.
Reads(node, depth, embedded, honoured, conf) ==
    IF node.kind = "leaf" THEN Holds(node, embedded, FALSE, conf)
    ELSE IF depth = conf.depth THEN Holds(Text(node), embedded, FALSE, conf)
    ELSE FlattenSeq(
           [i \in DOMAIN node.items |->
              LET item == node.items[i]
                  below == Reads(item.node, depth + 1, embedded, honoured, conf)
              IN  IF node.kind = "list" THEN below
                  ELSE IF honoured /\ item.key.excluded THEN <<>>
                  ELSE IF item.key.outright THEN <<Outright>>
                  ELSE <<Plain(item.key)>> \o below])

\* A value's text, then the texts of the document it may hold.
Holds(node, embedded, honoured, conf) ==
    <<node>> \o (IF embedded /\ node.inner # <<>>
                 THEN Reads(Head(node.inner), 1, TRUE, honoured, conf) ELSE <<>>)

Parts(parts, honoured, conf) ==
    FlattenSeq([i \in DOMAIN parts |->
        IF parts[i].key.excluded THEN <<>>
        ELSE <<Plain(parts[i].key)>> \o Holds(parts[i].node, TRUE, honoured, conf)])

Headers(parts, conf) ==
    FlattenSeq([i \in DOMAIN parts |->
        (IF parts[i].key.excluded /\ parts[i].key.outright THEN <<Outright>> ELSE <<>>)
        \o (IF parts[i].key.excluded /\ parts[i].skipped THEN <<>>
            ELSE <<Plain(parts[i].key)>> \o Holds(parts[i].node, TRUE, TRUE, conf))])

Body(body, conf) ==
    IF ~Readable(body) THEN <<>>
    ELSE IF body.type = "form" THEN Parts(body.parts, FALSE, conf)
    ELSE IF body.type = "json" /\ body.whole.inner # <<>>
         THEN Reads(Head(body.whole.inner), 1, FALSE, TRUE, conf)
    ELSE <<body.whole>>

ReadingOrder(req, conf) ==
    Parts(req.query, TRUE, conf) \o Holds(req.path, TRUE, TRUE, conf)
    \o Headers(req.headers, conf) \o Body(req.body, conf)

Order(s) == ReadingOrder(request[s], setting[s])

Texts(order) == SelectSeq(order, LAMBDA t : t # Outright)

\* The longest prefix whose values fit the value cap and each of whose values
\* begins below the character cap.
Affordable(texts, conf) ==
    CHOOSE n \in 0 .. Len(texts) :
        /\ n <= conf.values
        /\ \A i \in 1 .. n : Sizes(SubSeq(texts, 1, i - 1)) < conf.chars
        /\ n = Len(texts) \/ n = conf.values \/ Sizes(SubSeq(texts, 1, n)) >= conf.chars

-----------------------------------------------------------------------------
\* The texts handed to the engine are always a prefix of the request in
\* reading order: the stack of _scan_json_value, the embedded documents and
\* the depth cap reorder and skip nothing, so the budgets cut off the tail.
ScansInOrder ==
    \A s \in DsScans :
        admitted[s] # <<>> => IsPrefix(admitted[s], Texts(Order(s)))

\* A scan that ends clean looked at everything the budgets pay for, and at
\* every key and header that is a finding by itself when they pay for all.
CleanMeansScanned ==
    \A s \in DsScans :
        outcome[s] = "clean" =>
            LET texts == Texts(Order(s))
                n     == Affordable(texts, setting[s])
            IN  /\ Len(admitted[s]) = n
                /\ n = Len(texts) => texts = Order(s)

\* What is scanned is what the budgets pay for, from the front of the request.
ScansWhatIsPaidFor == ScansInOrder /\ CleanMeansScanned

\* The outcome is what the texts deserve: no clean scan let a pattern match
\* through, even when detect() failed or another configuration was loaded
\* meanwhile; with its own configuration and no failure none let any finding
\* through; and a hit has a text or an outright finding behind it.
OutcomeDeserved ==
    \A s \in DsScans :
        LET marks == {admitted[s][i].mark : i \in DOMAIN admitted[s]}
        IN  /\ outcome[s] \in {"clean", "unread"} =>
                 /\ "pattern" \notin marks
                 /\ exact[s] /\ setting[s].semantic => "meaning" \notin marks
            /\ outcome[s] = "hit" =>
                 \/ "pattern" \in marks
                 \/ "meaning" \in marks
                 \/ Outright \in Range(Order(s))
=============================================================================
