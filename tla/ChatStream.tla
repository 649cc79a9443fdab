----------------------------- MODULE ChatStream ------------------------------
(***************************************************************************)
(* The text of one streamed answer, from the engine's tokens to the app's  *)
(* transcript: the incremental decoder (daemon/src/chat.rs, StreamDecoder),*)
(* the SSE task (daemon/src/server.rs, stream_completion), the body in     *)
(* whatever chunks the connection delivers it, and the app's parser        *)
(* (app/src/api.rs, run_chat). The blocking endpoint's answer is the       *)
(* reference: it decodes all tokens at once.                               *)
(*                                                                         *)
(* A character has one byte, or, if it is in Wide, two. A token is a       *)
(* sequence of bytes that may begin or end inside a character. An SSE      *)
(* event is a line: what it is, the bytes of its text, the newline; JSON   *)
(* and the `data:` prefix are left out.                                    *)
(***************************************************************************)
EXTENDS Naturals, Sequences, SequencesExt

CONSTANTS
    Narrow, Wide,   \* characters of one byte and of two
    Replacement,    \* U+FFFD
    Token,
    Bytes,          \* Bytes[t]: the bytes a token stands for
    Stops,          \* the template's stop strings
    MaxTokens       \* the request's max_tokens

Char  == Narrow \cup Wide
Event == {"delta", "finish", "error", "done"}
Byte  == (Char \X {0, 1, 2})
Mark  == Event \cup {"newline"}

\* JSON escapes what would be syntax in a text; the templates' stop strings are
\* written out in chat.rs, without a replacement character.
ASSUME StreamAssumption ==
    /\ Narrow \cap Wide = {}
    /\ Replacement \in Wide
    /\ Char \cap Mark = {}
    /\ Bytes \in [Token -> Seq(Byte)]
    /\ MaxTokens \in Nat
    /\ \A s \in Stops : s \in Seq(Char \ {Replacement}) /\ s # <<>>

-----------------------------------------------------------------------------
(***************************************************************************)
(* Text.                                                                   *)
(***************************************************************************)
\* UTF-8. A mark of the event syntax is a byte like any other.
Utf8(c) == IF c \in Wide THEN <<<<c, 1>>, <<c, 2>>>> ELSE <<<<c, 0>>>>
Encode(text) == FlattenSeq([i \in DOMAIN text |-> Utf8(text[i])])

\* from_utf8_lossy, and a byte-level tokenizer's decoder: half a character is
\* replaced.
FirstHalf(bs, i)  == i \in DOMAIN bs /\ bs[i][2] = 1
SecondHalf(bs, i) == i \in DOMAIN bs /\ bs[i][2] = 2
Joined(bs, i) == FirstHalf(bs, i) /\ SecondHalf(bs, i + 1) /\ bs[i][1] = bs[i + 1][1]

Lossy(bs) ==
    LET CharAt(i) ==
            IF bs[i][2] = 0 \/ Joined(bs, i) THEN <<bs[i][1]>>
            ELSE IF i > 1 /\ Joined(bs, i - 1) THEN <<>>
            ELSE <<Replacement>>
    IN  FlattenSeq([i \in DOMAIN bs |-> CharAt(i)])

\* Tok::decode
Text(toks) == Lossy(FlattenSeq([i \in DOMAIN toks |-> Bytes[toks[i]]]))

OccursAt(text, s, p) == p + Len(s) - 1 <= Len(text) /\ SubSeq(text, p, p + Len(s) - 1) = s
StopsIn(text, s) == {p \in DOMAIN text : OccursAt(text, s, p)}
AllStops(text) == UNION {StopsIn(text, s) : s \in Stops}

\* Mutant: cut at the last stop string.
StripLastStop(text) ==
    IF AllStops(text) = {} THEN [kept |-> text, stopped |-> FALSE]
    ELSE [kept |-> SubSeq(text, 1, Max(AllStops(text)) - 1), stopped |-> TRUE]

StripStop(text) ==
    IF AllStops(text) = {} THEN [kept |-> text, stopped |-> FALSE]
    ELSE [kept |-> SubSeq(text, 1, Min(AllStops(text)) - 1), stopped |-> TRUE]

-----------------------------------------------------------------------------
VARIABLES
    tokens,     \* the tokens generated so far
    decoder,    \* StreamDecoder: [ids, prev, finished]
    task,       \* the generation: "running", then how it ended
    streamed,   \* the deltas sent, one after the other, for the properties
    reason,     \* the finish_reason sent
    body,       \* the response body, sent and not yet received
    buf,        \* run_chat's buf: the characters of an incomplete line
    content,    \* the content of the assistant's message in the transcript
    app,        \* run_chat: "reading", then how it returned
    torn        \* has a chunk ended inside a character?

daemonVars == <<tokens, decoder, task, streamed, reason>>
appVars    == <<buf, content, app, torn>>
vars       == <<daemonVars, body, appVars>>

NotYet == "none"

Line(event, text) == <<<<event, 0>>>> \o Encode(text) \o <<<<"newline", 0>>>>

\* The stream opens with an empty delta that carries the role.
Init ==
    /\ tokens = <<>>
    /\ decoder = [ids |-> <<>>, prev |-> <<>>, finished |-> FALSE]
    /\ task = "running"
    /\ streamed = <<>>
    /\ reason = NotYet
    /\ body = Line("delta", <<>>)
    /\ buf = <<>> /\ content = <<>> /\ app = "reading" /\ torn = FALSE

(***************************************************************************)
(* The daemon.                                                             *)
(***************************************************************************)
\* The delta of kept against prev: nothing, unless kept extends prev.
Delta(prev, kept) ==
    IF IsPrefix(prev, kept) THEN SubSeq(kept, Len(prev) + 1, Len(kept)) ELSE <<>>

\* Mutant: the text is not cut before it is diffed.
PushUncut(d, t) ==
    LET full == Text(Append(d.ids, t))
    IN  IF d.finished THEN [delta |-> <<>>, decoder |-> d]
        ELSE [delta   |-> Delta(d.prev, full),
              decoder |-> [ids |-> Append(d.ids, t), prev |-> full,
                           finished |-> StripStop(full).stopped]]

\* Mutant: prev is not brought up to date.
PushForgetting(d, t) ==
    LET cut == StripStop(Text(Append(d.ids, t)))
    IN  IF d.finished THEN [delta |-> <<>>, decoder |-> d]
        ELSE [delta   |-> Delta(d.prev, cut.kept),
              decoder |-> [d EXCEPT !.ids = Append(@, t), !.finished = cut.stopped]]

\* StreamDecoder::push: the delta, and the decoder after it.
Push(d, t) ==
    LET cut == StripStop(Text(Append(d.ids, t)))
    IN  IF d.finished THEN [delta |-> <<>>, decoder |-> d]
        ELSE [delta   |-> Delta(d.prev, cut.kept),
              decoder |-> [ids |-> Append(d.ids, t), prev |-> cut.kept,
                           finished |-> cut.stopped]]

\* Mutant: a token too many.
GenerateMore(t) ==
    /\ task = "running" /\ Len(tokens) <= MaxTokens
    /\ tokens' = Append(tokens, t)
    /\ UNCHANGED <<decoder, streamed, body, task, reason, appVars>>

\* on_tok of a running generation; tokens after a stop string are drained.
Generate(t) ==
    /\ task = "running" /\ Len(tokens) < MaxTokens
    /\ tokens' = Append(tokens, t)
    /\ LET p == Push(decoder, t)
       IN  /\ decoder' = p.decoder
           /\ streamed' = streamed \o p.delta
           /\ body' = IF p.delta = <<>> THEN body ELSE body \o Line("delta", p.delta)
    /\ UNCHANGED <<task, reason, appVars>>

\* The last event, and [DONE] right after it.
Close(end, event, why) ==
    /\ task = "running"
    /\ task' = end
    /\ reason' = why
    /\ body' = body \o Line(event, <<>>) \o Line("done", <<>>)
    /\ UNCHANGED <<tokens, decoder, streamed, appVars>>

\* max_tokens reached, or the engine met an end-of-sequence token.
Finish ==
    Close("complete", "finish",
          IF ~decoder.finished /\ Len(tokens) >= MaxTokens THEN "length" ELSE "stop")

\* Mutant: the timeout covers the wait for the first token only.
TimeOutFirst == tokens = <<>> /\ Close("timed out", "finish", "length")

\* REQUEST_TIMEOUT covers the whole generation.
TimeOut == Close("timed out", "finish", "length")

\* generate() fails: no engine, or it died.
GenerationFails == Close("failed", "error", NotYet)

\* The daemon shuts down: the body ends without a last event.
Abort ==
    /\ task = "running"
    /\ task' = "aborted"
    /\ UNCHANGED <<tokens, decoder, streamed, reason, body, appVars>>

(***************************************************************************)
(* The app: run_chat once the response has begun.                          *)
(***************************************************************************)
\* A complete line. Only deltas and [DONE] do anything: an error event has
\* neither and is passed over.
Parse(acc) ==
    LET rest == [acc EXCEPT !.buf = <<>>]
    IN  IF acc.buf = <<>> THEN rest
        ELSE CASE Head(acc.buf) = "delta" -> [rest EXCEPT !.content = @ \o Tail(acc.buf)]
               [] Head(acc.buf) = "done"  -> [rest EXCEPT !.app = "done"]
               [] OTHER                   -> rest

Feed(acc, c) ==
    IF acc.app # "reading" THEN acc
    ELSE IF c = "newline" THEN Parse(acc)
    ELSE [acc EXCEPT !.buf = Append(@, c)]

\* Mutant: what follows the last newline of a chunk is not kept for the next.
Unbuffered(chunk) ==
    FoldLeft(Feed, [buf |-> <<>>, content |-> content, app |-> app], Lossy(chunk))

Received(chunk) ==
    FoldLeft(Feed, [buf |-> buf, content |-> content, app |-> app], Lossy(chunk))

\* A chunk: the connection may cut the body anywhere.
Receive(k) ==
    /\ app = "reading" /\ k \in DOMAIN body
    /\ LET after == Received(SubSeq(body, 1, k))
       IN  buf' = after.buf /\ content' = after.content /\ app' = after.app
    /\ body' = SubSeq(body, k + 1, Len(body))
    /\ torn' = (torn \/ FirstHalf(body, k))
    /\ UNCHANGED daemonVars

\* The body ends without [DONE].
BodyEnds ==
    /\ app = "reading" /\ body = <<>> /\ task # "running"
    /\ app' = "done"
    /\ UNCHANGED <<daemonVars, body, buf, content, torn>>

\* The connection breaks, or the 300 s of the client are over: fail() puts the
\* message in place of the answer (here, nothing). The daemon's task goes on
\* without a reader.
Breaks ==
    /\ app = "reading"
    /\ app' = "failed"
    /\ content' = <<>>
    /\ UNCHANGED <<daemonVars, body, buf, torn>>

-----------------------------------------------------------------------------
Daemon == (\E t \in Token : Generate(t)) \/ Finish \/ TimeOut \/ GenerationFails \/ Abort
App == (\E k \in 1..Len(body) : Receive(k)) \/ BodyEnds

Next == Daemon \/ App \/ Breaks

Spec == Init /\ [][Next]_vars

(***************************************************************************)
(* REQUEST_TIMEOUT fires, whatever the engine does; bytes sent arrive.     *)
(* Nothing is assumed of the engine or of the client's timer.              *)
(***************************************************************************)
FairSpec == Spec /\ WF_vars(TimeOut) /\ WF_vars(App)

-----------------------------------------------------------------------------
(***************************************************************************)
(* Properties.                                                             *)
(***************************************************************************)
TypeOK ==
    /\ tokens \in Seq(Token) /\ Len(tokens) <= MaxTokens
    /\ decoder.ids \in Seq(Token) /\ decoder.prev \in Seq(Char)
    /\ decoder.finished \in BOOLEAN
    /\ task \in {"running", "complete", "timed out", "failed", "aborted"}
    /\ streamed \in Seq(Char)
    /\ reason \in {NotYet, "length", "stop"}
    /\ buf \in Seq(Char \cup Event)
    /\ content \in Seq(Char)
    /\ app \in {"reading", "done", "failed"} /\ torn \in BOOLEAN

\* What the blocking endpoint answers with, given the same tokens.
Blocking == StripStop(Text(tokens))

\* The decoder's comment (chat.rs:123-125): "Decodes the full sequence each
\* step and diffs against the previously emitted prefix so
\* multi-byte/multi-token characters render correctly."
RendersCorrectly ==
    task = "complete" /\ ~Blocking.stopped => streamed = Blocking.kept

\* Tokens of whole characters, and no stop string across two tokens.
WholeTokens == \A i \in DOMAIN tokens : Encode(Lossy(Bytes[tokens[i]])) = Bytes[tokens[i]]
StopsInTokens ==
    \A n \in DOMAIN tokens, s \in Stops, p \in DOMAIN Text(tokens) :
        LET seen == Len(Text(SubSeq(tokens, 1, n)))
        IN  OccursAt(Text(tokens), s, p) => ~(p <= seen /\ seen < p + Len(s) - 1)

\* For such tokens the two endpoints agree at every moment: the deltas sent so
\* far are the blocking answer to the tokens so far, and the answer ends for
\* the same reason.
StreamedIsBlocking ==
    WholeTokens /\ StopsInTokens =>
        /\ streamed = Blocking.kept
        /\ decoder.finished = Blocking.stopped
        /\ task = "complete" =>
              (reason = "length" <=> ~Blocking.stopped /\ Len(tokens) >= MaxTokens)

\* For any tokens: no stop string is ever shown, be it spread over tokens, over
\* deltas or over chunks.
StopNeverShown == AllStops(streamed) = {} /\ AllStops(content) = {}

\* What is left of t at the positions of S; of a text, without replacement
\* characters; and s is what is left of t at some positions.
Picked(t, S) == FlattenSeq([i \in DOMAIN t |-> IF i \in S THEN <<t[i]>> ELSE <<>>])
Shown(text) == Picked(text, {i \in DOMAIN text : text[i] # Replacement})
Embeds(s, t) == \E S \in SUBSET DOMAIN t : s = Picked(t, S)

\* For any tokens: apart from replacement characters and a part of a stop
\* string, what is streamed are characters of the answer in their order:
\* nothing is said twice and nothing is made up.
NothingInvented ==
    LET shown == Shown(streamed)
    IN  \E n \in 0..Len(shown) :
            LET rest == SubSeq(shown, n + 1, Len(shown))
            IN  /\ rest = <<>> \/ \E s \in Stops : Len(rest) < Len(s) /\ Embeds(rest, s)
                /\ Embeds(SubSeq(shown, 1, n), Blocking.kept)

\* The transcript is what was streamed, in whatever chunks it came (unless one
\* ended inside a character): a prefix of it while the app reads, all of it
\* once the app has seen [DONE].
TranscriptIsStreamed ==
    ~torn /\ app # "failed" =>
        /\ IsPrefix(content, streamed)
        /\ app = "done" => content = streamed

\* An answer ends in the app even if the engine hangs: run_chat returns, so
\* that `generating` does not stay set.
AnswerEnds == app = "reading" ~> app # "reading"

=============================================================================
