---------------------------- MODULE GatewayStream ----------------------------
(***************************************************************************)
(* Calls of the gateway runtime (gateway/runtime.py): the same request is  *)
(* answered as events or as one JSON object, from the cache or by a        *)
(* provider, after at most one fallback to another one.  Events are pulled *)
(* by a consumer that may go away instead of taking the next one; a call   *)
(* continues behind an event only once it was taken.  An upstream may end, *)
(* break, pass a limit or a deadline at any moment.                        *)
(***************************************************************************)
EXTENDS Integers, SequencesExt

CONSTANTS
    Callers,
    NoCaller,
    MaxSequence,  \* MAX_SEQUENCE, the last number of an event
    Chunks,       \* the updates one chunk of the upstream may bring
    HasSelector   \* fallback_selector is configured

ASSUME StreamAssumption ==
    /\ MaxSequence \in Nat /\ MaxSequence >= 4
    /\ Chunks \subseteq Seq({"text", "tool"})
    /\ HasSelector \in BOOLEAN
    /\ NoCaller \notin Callers

VARIABLES
    entry,     \* the cache: the call whose answer is stored for the request
    cacheOpen, \* the runtime holds an open cache
    call       \* what each call does, has offered and was taken from it

streamVars == <<entry, cacheOpen, call>>

(***************************************************************************)
(* The parser of one upstream (gateway/streaming.py), which runs ahead of  *)
(* the events: updates are those of the last chunk not yet offered.        *)
(***************************************************************************)
FreshParser == [output |-> FALSE, tool |-> FALSE, terminal |-> FALSE,
                invalid |-> FALSE, updates |-> <<>>]

\* Mutant: text already given does not count.
ObservedTools(parser) == parser.tool

Observed(parser) == parser.output \/ parser.tool

\* Only the first tool use of a stream is an update.
NewUpdates(parser) == {updates \in Chunks : parser.tool => ~Contains(updates, "tool")}

Fed(parser, updates, terminal, invalid) ==
    [output |-> parser.output \/ Contains(updates, "text"),
     tool |-> parser.tool \/ Contains(updates, "tool"),
     terminal |-> terminal, invalid |-> invalid,
     updates |-> updates]

\* finish may still find a truncated frame behind the terminal event.
Results(parser, interrupted) ==
    IF interrupted THEN {"interrupted"}
    ELSE IF parser.terminal /\ ~parser.invalid THEN {"complete", "uncertain"}
    ELSE {"uncertain"}

(***************************************************************************)
(* Events.                                                                 *)
(***************************************************************************)
Event(number, type, source) == [number |-> number, type |-> type, source |-> source]

Terminals == {"complete", "interrupted", "uncertain", "error"}

StreamInit ==
    /\ entry = NoCaller
    /\ cacheOpen \in BOOLEAN
    /\ call = [c \in Callers |->
                  [at |-> "idle", live |-> FALSE, json |-> FALSE, streamed |-> FALSE,
                   source |-> "primary", available |-> FALSE, offered |-> <<>>,
                   taken |-> <<>>, sequence |-> 0, deltas |-> 0,
                   parser |-> FreshParser, result |-> "none",
                   recorded |-> "none"]]

At(c, step) == call[c].at = step /\ call[c].offered = <<>>
Become(c, next) == call' = [call EXCEPT ![c] = next]

\* The next events of a live call; only a terminal event can find the limit
\* reached.
NextEvents(c, types) ==
    [i \in DOMAIN types |->
        LET number == call[c].sequence + i - 1
        IN Event(IF number > MaxSequence THEN MaxSequence ELSE number, types[i], call[c].source)]

Offering(c, types) ==
    [call[c] EXCEPT !.offered = NextEvents(c, types), !.sequence = @ + Len(types)]

\* A call that is not live has nothing to say on the way.
Announcing(c, type) == IF call[c].live THEN Offering(c, <<type>>) ELSE call[c]

\* gateway_events: the events of an answer known as a whole.
Whole(c, source, result, tool) ==
    LET types ==
            IF result = "error" THEN <<"error">>
            ELSE <<"started">>
                 \o (IF source = "cache" THEN <<"cache">> ELSE <<>>)
                 \o (IF source = "other" THEN <<"fallback">> ELSE <<>>)
                 \o (IF tool THEN <<"tool">> ELSE <<>>)
                 \o <<"text", result>>
    IN IF call[c].json THEN <<>>
       ELSE [i \in DOMAIN types |-> Event(i - 1, types[i], source)]

(***************************************************************************)
(* The beginning of a call: an answer for the request may be stored.       *)
(***************************************************************************)
Begin(c, json, streamed) ==
    /\ At(c, "idle")
    /\ Become(c, [call[c] EXCEPT !.at = "looking", !.json = json, !.streamed = streamed,
                                 !.live = streamed /\ ~json])
    /\ UNCHANGED <<entry, cacheOpen>>

\* Without a cache, after a miss, or when the lookup raised.
AskProvider(c, available) ==
    Become(c, [Announcing(c, "started") EXCEPT !.at = "calling", !.available = available])

Lookup(c) ==
    /\ At(c, "looking")
    /\ \/ call[c].streamed /\ cacheOpen /\ entry = NoCaller /\ AskProvider(c, TRUE)
       \/ AskProvider(c, FALSE)
       \/ /\ call[c].streamed /\ cacheOpen /\ entry # NoCaller
          /\ Become(c, [call[c] EXCEPT !.at = "answered", !.source = "cache",
                                       !.result = "complete",
                                       !.offered = Whole(c, "cache", "complete", FALSE)])
    /\ UNCHANGED <<entry, cacheOpen>>

(***************************************************************************)
(* The end of an upstream.                                                 *)
(***************************************************************************)
Room(c) == call[c].sequence < MaxSequence

\* A live answer ends in one terminal event, behind a delta if there was none.
Completed(c, result) ==
    LET types == IF call[c].deltas = 0 /\ Room(c) THEN <<"text", result>> ELSE <<result>>
    IN  [Offering(c, types) EXCEPT !.at = "answered", !.result = result]

\* An answer known as a whole is stored before it is given.
Aggregated(c, result, tool) ==
    [call[c] EXCEPT !.at = "storing", !.result = result, !.parser.tool = tool]

\* The failures the selector may answer with another provider, once.
Signals == {"deadline", "signal"}

MayFallBack(c, failure) ==
    /\ HasSelector /\ failure \in Signals
    /\ call[c].source = "primary"
    /\ call[c].live => Room(c)

FallBack(c) ==
    Become(c, [Announcing(c, "fallback") EXCEPT !.at = "calling", !.source = "other",
                                                !.available = FALSE, !.parser = FreshParser])

Fail(c, failure) ==
    \/ MayFallBack(c, failure) /\ FallBack(c)
    \/ LET told == IF call[c].live THEN Offering(c, <<"error">>)
                   ELSE [call[c] EXCEPT !.offered = Whole(c, call[c].source, "error", FALSE)]
       IN Become(c, [told EXCEPT !.at = "answered", !.result = "error"])

(***************************************************************************)
(* The call of a provider.                                                 *)
(***************************************************************************)
\* No connection, or a status or content type that is not an answer.
Refuse(c) ==
    /\ At(c, "calling")
    /\ \E failure \in {"signal", "other"} : Fail(c, failure)
    /\ UNCHANGED <<entry, cacheOpen>>

Connect(c) ==
    /\ At(c, "calling") /\ call[c].live
    /\ Become(c, [call[c] EXCEPT !.at = "reading"])
    /\ UNCHANGED <<entry, cacheOpen>>

\* An answer that is not live is read to its end first.
Aggregate(c) ==
    /\ At(c, "calling") /\ ~call[c].live
    /\ \E tool \in BOOLEAN,
          result \in IF call[c].streamed THEN Terminals \ {"error"} ELSE {"complete"} :
            Become(c, Aggregated(c, result, tool))
    /\ UNCHANGED <<entry, cacheOpen>>

Parser(c) == call[c].parser
Reading(c) == At(c, "reading") /\ Parser(c).updates = <<>>
Continues(c) == ~Parser(c).terminal /\ ~Parser(c).invalid

Feed(c) ==
    /\ Reading(c) /\ Continues(c)
    /\ \E updates \in NewUpdates(Parser(c)), terminal, invalid \in BOOLEAN :
        /\ updates # <<>> \/ terminal \/ invalid
        /\ Become(c, [call[c] EXCEPT !.parser = Fed(@, updates, terminal, invalid)])
    /\ UNCHANGED <<entry, cacheOpen>>

AtLimit(c) == call[c].sequence >= MaxSequence

Emit(c) ==
    /\ At(c, "reading") /\ Parser(c).updates # <<>>
    /\ LET update == Head(Parser(c).updates) IN
        IF AtLimit(c)
        THEN Become(c, Completed(c, "interrupted"))
        ELSE Become(c, [Offering(c, <<update>>) EXCEPT
                           !.deltas = @ + (IF update = "text" THEN 1 ELSE 0),
                           !.parser.updates = Tail(@)])
    /\ UNCHANGED <<entry, cacheOpen>>

\* The loop was left, or the upstream has no more chunks.
Finish(c) ==
    /\ Reading(c)
    /\ \E result \in Results(Parser(c), FALSE) : Become(c, Completed(c, result))
    /\ UNCHANGED <<entry, cacheOpen>>

\* The next pull raises (ProviderEventStream): what was observed is never
\* repeated with another provider.
Break(c) ==
    /\ Reading(c) /\ Continues(c)
    /\ \E failure \in {"deadline", "size", "signal", "other"} :
        IF Observed(Parser(c))
        THEN \E result \in Results(Parser(c), TRUE) : Become(c, Completed(c, result))
        ELSE Fail(c, failure)
    /\ UNCHANGED <<entry, cacheOpen>>

(***************************************************************************)
(* The consumer, the telemetry and the cache.                              *)
(***************************************************************************)
Take(c) ==
    /\ call[c].offered # <<>>
    /\ Become(c, [call[c] EXCEPT !.taken = Append(@, Head(call[c].offered)),
                                 !.offered = Tail(@)])
    /\ UNCHANGED <<entry, cacheOpen>>

\* GeneratorExit at an event: the upstream is closed already or by its finally.
Abandon(c) ==
    /\ call[c].offered # <<>>
    /\ Become(c, [call[c] EXCEPT !.at = "abandoned", !.offered = <<>>])
    /\ UNCHANGED <<entry, cacheOpen>>

\* _record_telemetry may fail silently.
Record(c) ==
    /\ At(c, "answered")
    /\ \E recorded \in {IF call[c].result = "complete" THEN "success" ELSE "failure", "lost"} :
        Become(c, [call[c] EXCEPT !.recorded = recorded,
                                  !.at = IF call[c].live THEN "storing" ELSE "done"])
    /\ UNCHANGED <<entry, cacheOpen>>

\* Mutant: the tool use is not looked at.
CacheableWithTools(c) == call[c].result = "complete"

Cacheable(c) == call[c].result = "complete" /\ ~Parser(c).tool

MayStore(c) == call[c].available /\ call[c].source = "primary" /\ Cacheable(c) /\ cacheOpen

StoreAnswer(c) ==
    /\ At(c, "storing")
    /\ entry' \in {entry} \cup (IF MayStore(c) THEN {c} ELSE {})
    /\ IF call[c].live THEN Become(c, [call[c] EXCEPT !.at = "done"])
       ELSE Become(c, [call[c] EXCEPT !.at = "answered",
                          !.offered = Whole(c, call[c].source, call[c].result, Parser(c).tool)])
    /\ UNCHANGED cacheOpen

\* Expiry, eviction or a clear.
Forget == entry # NoCaller /\ entry' = NoCaller /\ UNCHANGED <<cacheOpen, call>>

CloseRuntime == cacheOpen /\ cacheOpen' = FALSE /\ UNCHANGED <<entry, call>>

StreamNext ==
    \/ \E c \in Callers :
        \/ \E json, streamed \in BOOLEAN : Begin(c, json, streamed)
        \/ Lookup(c) \/ Refuse(c) \/ Connect(c) \/ Aggregate(c)
        \/ Feed(c) \/ Emit(c) \/ Finish(c) \/ Break(c)
        \/ Take(c) \/ Abandon(c)
        \/ Record(c) \/ StoreAnswer(c)
    \/ Forget
    \/ CloseRuntime

StreamSpec == StreamInit /\ [][StreamNext]_streamVars

(***************************************************************************)
(* Properties.                                                             *)
(***************************************************************************)
Events(c) == call[c].taken \o call[c].offered

\* Each call is at one place of its code, with a parser and a few events.
StreamTypeOK ==
    /\ entry \in Callers \cup {NoCaller}
    /\ cacheOpen \in BOOLEAN
    /\ \A c \in Callers :
        /\ call[c].at \in {"idle", "looking", "calling", "reading", "storing",
                           "answered", "done", "abandoned"}
        /\ call[c].source \in {"primary", "other", "cache"}
        /\ call[c].result \in Terminals \cup {"none"}
        /\ call[c].recorded \in {"none", "success", "failure", "lost"}
        /\ call[c].sequence \in 0 .. MaxSequence + 1

\* Output of two providers is never joined: what a consumer sees of one call
\* has one source, and a fallback is announced once and before all output.
OneSource ==
    \A c \in Callers : \A i, j \in DOMAIN Events(c) :
        /\ {Events(c)[i].type, Events(c)[j].type} \subseteq {"text", "tool", "complete"}
            => Events(c)[i].source = Events(c)[j].source
        /\ Events(c)[i].type = "fallback" /\ i # j
            => /\ Events(c)[j].type # "fallback"
               /\ j < i => Events(c)[j].type \notin {"text", "tool"}

\* The ordering rules of docs/api/gateway-response-v1.md: events are numbered
\* without a gap within the limit, a started event or a lone error comes first,
\* nothing follows a terminal event, a call that ends has had one, and its output
\* has one source.
OneAnswer ==
    /\ OneSource
    /\ \A c \in Callers :
        /\ \A i \in DOMAIN Events(c) :
            /\ Events(c)[i].number = i - 1 /\ i - 1 <= MaxSequence
            /\ Events(c)[i].type = "started" <=> i = 1 /\ Events(c)[1].type # "error"
            /\ Events(c)[i].type \in Terminals => i = Len(Events(c))
        /\ call[c].at = "done" /\ ~call[c].json => Last(call[c].taken).type \in Terminals

\* What a call leaves behind is what was taken of it.  The cache holds only
\* complete answers of the primary provider in which no tool was used, those
\* given as events only when taken to the end, and no call the consumer left;
\* and a record of a call counts it as a success exactly if its completed event
\* was taken.  Of an abandoned call this asks no record, and forbids none.
KeptAsTaken ==
    /\ entry # NoCaller =>
        /\ call[entry].source = "primary" /\ call[entry].streamed
        /\ call[entry].result = "complete" /\ ~Parser(entry).tool
        /\ call[entry].live => Last(call[entry].taken).type = "complete"
    /\ \A c \in Callers :
        /\ call[c].recorded \in {"success", "failure"} /\ ~call[c].json
            => (call[c].recorded = "success" <=> Last(call[c].taken).type = "complete")
        /\ call[c].at = "abandoned" => entry # c
=============================================================================
