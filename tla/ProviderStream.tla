--------------------------- MODULE ProviderStream ---------------------------
(***************************************************************************)
(* One call of the model: the request and its retries (agentLoop.ts and    *)
(* retry.ts), the stream of deltas that openaiCompatible.ts puts together, *)
(* and what becomes of an error on its way from a status of the server to  *)
(* the message that the loop reads again.  The server and the SDK's client *)
(* are external: it breaks off at any delta, and may cut an answer short.  *)
(*                                                                         *)
(* A delta of a tool call is its head (the id, the name and what the       *)
(* provider passes through) or the k-th piece of its arguments; a message  *)
(* is the set of phrases in it that someone looks for.                     *)
(***************************************************************************)
EXTENDS Integers, Sequences, FiniteSets

CONSTANTS
    MaxIndex,     \* bound on the tool calls of an answer
    MaxPieces,    \* bound on the pieces of a call's arguments
    MaxText,      \* bound on the text deltas of an answer
    maxRetries

VARIABLES
    step,     \* "ask", "stream", "chat", "response" or "thrown"
    attempt,  \* failed attempts
    answer,   \* the calls the model means: name given or not, pieces of arguments
    sent,     \* deltas sent of each
    acc,      \* the accumulator, by index
    text,     \* text deltas of this attempt
    shown,    \* the attempts whose text is on the screen, a delta each
    calls,    \* toolCalls of the response
    words,    \* the message of the last error
    status,   \* and the server's status behind it
    aborted

reply == <<answer, sent, acc, text>>
vars  == <<step, attempt, reply, shown, calls, words, status, aborted>>

(***************************************************************************)
(* The request.                                                            *)
(***************************************************************************)
\* A model, a temperature asked for and one configured, and the effort.
supportsReasoningEffort(model) == model = "pro"
reasoningField(model, effort) == IF effort # "none" /\ supportsReasoningEffort(model) THEN {"reasoning"} ELSE {}
temperatureField(perCall, default) == IF perCall \/ default THEN {"temperature"} ELSE {}

\* Mutated form of modelAwareTemperatureField: it asks nothing of the model.
AnyTemperatureField(model, perCall, default) == temperatureField(perCall, default)

modelAwareTemperatureField(model, perCall, default) ==
    IF supportsReasoningEffort(model) THEN {} ELSE temperatureField(perCall, default)

(***************************************************************************)
(* Errors: a status, what it is told as, and what the loop reads in that.  *)
(***************************************************************************)
Statuses == {"401", "402", "404", "400", "429", "503", "network"}
\* What the server may say besides: a length, a key, or a Retry-After in seconds.
Details == {"none", "context_length", "api_key", "400"}

\* mapProviderError: the detail of a 400 and of a failed connection is passed on,
\* and so is the Retry-After of a 429.
Told(s, detail) ==
    CASE s = "401" -> {"401", "api_key"}
      [] s = "402" -> {"402"}
      [] s = "404" -> {"404"}
      [] s = "503" -> {"503"}
      [] s = "429" -> {"429", "rate_limit", detail}
      [] s = "400" -> {"400", detail}
      [] OTHER     -> {"request_failed", detail}

isContextOverflowError(m) == "context_length" \in m
isAuthError(m)  == m \cap {"401", "unauthorized", "api_key"} # {}

\* Mutated form of isModelError: the 400 of a request is not one.
OnlyUnknownModel(m) == "404" \in m

isModelError(m) == m \cap {"404", "400", "model_not_found"} # {}
Fatal(m) == isContextOverflowError(m) \/ isAuthError(m) \/ isModelError(m)

(***************************************************************************)
(* The accumulator.                                                        *)
(***************************************************************************)
Delta(i, k) == [index |-> i, piece |-> k]
NoCall == [id |-> 0, name |-> FALSE, extra |-> 0, args |-> <<>>]
cur(i) == IF i \in DOMAIN acc THEN acc[i] ELSE NoCall

\* Mutated form of push: a piece goes to the call that began last.
PushedToLast(d) ==
    LET i == IF d.piece = 0 \/ DOMAIN acc = {} THEN d.index ELSE CHOOSE n \in DOMAIN acc : \A k \in DOMAIN acc : k <= n
    IN [n \in DOMAIN acc \cup {i} |->
           IF n # i THEN acc[n]
           ELSE IF d.piece = 0 THEN [cur(i) EXCEPT !.id = d.index, !.name = answer[d.index].named, !.extra = d.index]
           ELSE [cur(i) EXCEPT !.args = Append(@, <<d.index, d.piece>>)]]

\* The head sets the id, the name and the extra; a piece is appended.
push(d) ==
    [n \in DOMAIN acc \cup {d.index} |->
        IF n # d.index THEN acc[n]
        ELSE IF d.piece = 0 THEN [id |-> n, name |-> answer[n].named, extra |-> n, args |-> cur(n).args]
        ELSE [cur(n) EXCEPT !.args = Append(@, <<d.index, d.piece>>)]]

\* safeParseArgs: JSON that was cut is no JSON, and reads as no arguments.
WholeArgs(i) == [k \in 1 .. answer[i].pieces |-> <<i, k>>]
safeParseArgs(i, args) == IF args = WholeArgs(i) THEN args ELSE <<>>

\* In the order of the index, those with a name.
finalize ==
    LET upTo[i \in 0 .. MaxIndex] ==
            IF i = 0 THEN <<>>
            ELSE IF i \in DOMAIN acc /\ acc[i].name
                 THEN Append(upTo[i - 1], [acc[i] EXCEPT !.args = safeParseArgs(i, @)])
                 ELSE upTo[i - 1]
    IN upTo[MaxIndex]

(***************************************************************************)
(* getResponseWithRetry, getResponse and consumeStream.                    *)
(***************************************************************************)
Answers == UNION {[1 .. n -> [named : BOOLEAN, pieces : 0 .. MaxPieces]] : n \in 0 .. MaxIndex}

Begins(to) ==
    /\ \E a \in Answers : answer' = a /\ sent' = [i \in DOMAIN a |-> 0]
    /\ acc' = <<>> /\ text' = 0 /\ step' = to

\* The request of streamChat is taken, or fails.
Ask ==
    /\ step = "ask" /\ ~aborted
    /\ \/ Begins("stream") /\ UNCHANGED <<words, status>>
       \/ /\ \E s \in Statuses, d \in Details : words' = Told(s, d) /\ status' = s
          /\ step' = "chat" /\ UNCHANGED reply
    /\ UNCHANGED <<attempt, shown, calls, aborted>>

Says ==
    /\ step = "stream" /\ text < MaxText
    /\ text' = text + 1 /\ shown' = Append(shown, attempt)
    /\ UNCHANGED <<step, attempt, answer, sent, acc, calls, words, status, aborted>>

\* The calls are sent in any order, the deltas of one in theirs.
SendsCall(i) ==
    /\ step = "stream" /\ sent[i] <= answer[i].pieces
    /\ acc' = push(Delta(i, sent[i]))
    /\ sent' = [sent EXCEPT ![i] = @ + 1]
    /\ UNCHANGED <<step, attempt, answer, text, shown, calls, words, status, aborted>>

\* The iteration ends: the answer is whole, or it was cut at a length, or the
\* connection was closed between two deltas; finish_reason is not read.
StreamEnds ==
    /\ step = "stream"
    /\ calls' = finalize /\ step' = "response"
    /\ UNCHANGED <<attempt, reply, shown, words, status, aborted>>

\* Mutated form of Repeatable: what was shown does not keep it from the fallback.
RepeatableAlways == ~aborted

\* Without a text delta the call is made again without a stream.
Repeatable == ~aborted /\ text = 0

StreamBreaks ==
    /\ step = "stream"
    /\ \E d \in Details : words' = Told("network", d) /\ status' = "network"
    /\ step' = IF Repeatable THEN "chat" ELSE "thrown"
    /\ UNCHANGED <<attempt, reply, shown, calls, aborted>>

ChatAnswers ==
    /\ step = "chat" /\ ~aborted
    /\ \E a \in Answers :
        /\ answer' = a
        /\ calls' = [i \in DOMAIN a |-> [id |-> i, name |-> a[i].named, extra |-> i,
                                         args |-> [k \in 1 .. a[i].pieces |-> <<i, k>>]]]
        /\ sent' = [i \in DOMAIN a |-> a[i].pieces + 1]
    /\ acc' = <<>> /\ text' = 0 /\ step' = "response"
    /\ UNCHANGED <<attempt, shown, words, status, aborted>>

\* Mutated form of Again: one retry more.
AgainOnce(m) == ~Fatal(m) /\ attempt <= maxRetries

Again(m) == ~Fatal(m) /\ attempt < maxRetries

ChatFails ==
    /\ step = "chat"
    /\ \E s \in Statuses, d \in Details :
        /\ words' = Told(s, d) /\ status' = s
        /\ IF ~aborted /\ Again(words') THEN step' = "ask" /\ attempt' = attempt + 1
           ELSE step' = "thrown" /\ UNCHANGED attempt
    /\ UNCHANGED <<reply, shown, calls, aborted>>

\* While it waits to try again, at an await, or in the stream.
Abort ==
    /\ ~aborted /\ step \in {"ask", "stream", "chat"}
    /\ aborted' = TRUE
    /\ step' = IF step = "ask" THEN "thrown" ELSE step
    /\ UNCHANGED <<attempt, reply, shown, calls, words, status>>

\* The next turn of the loop.
Returns ==
    /\ step \in {"response", "thrown"}
    /\ step' = "ask" /\ attempt' = 0 /\ answer' = <<>> /\ sent' = <<>> /\ acc' = <<>> /\ text' = 0
    /\ shown' = <<>> /\ calls' = <<>> /\ words' = {} /\ status' = "none" /\ aborted' = FALSE

Init ==
    /\ step = "ask" /\ attempt = 0 /\ answer = <<>> /\ sent = <<>> /\ acc = <<>> /\ text = 0
    /\ shown = <<>> /\ calls = <<>> /\ words = {} /\ status = "none" /\ aborted = FALSE

Next ==
    \/ Ask \/ Says \/ StreamEnds \/ StreamBreaks \/ ChatAnswers \/ ChatFails \/ Abort \/ Returns
    \/ \E i \in DOMAIN answer : SendsCall(i)

Spec == Init /\ [][Next]_vars

(***************************************************************************)
(* Properties.                                                             *)
(***************************************************************************)
TypeOK ==
    /\ step \in {"ask", "stream", "chat", "response", "thrown"}
    /\ attempt \in 0 .. maxRetries
    /\ Len(shown) <= MaxText /\ aborted \in BOOLEAN

\* A response holds the calls the model meant, each once, in its order, under its
\* own id and with its own arguments or none, however their deltas were mixed.
CallsAreMeant ==
    step = "response" =>
        /\ \A n \in DOMAIN calls :
            LET c == calls[n] IN
            /\ c.id \in DOMAIN answer /\ c.extra = c.id
            /\ c.args \in {<<>>, WholeArgs(c.id)}
            /\ \A m \in 1 .. n - 1 : calls[m].id < c.id
        /\ \A i \in DOMAIN answer :
            answer[i].named /\ sent[i] = answer[i].pieces + 1 =>
                \E n \in DOMAIN calls : calls[n].id = i /\ calls[n].args = WholeArgs(i)

\* The text on the screen is that of one attempt, and when a response is there, of
\* the attempt that gave it: what was shown is not shown again by a retry.
ShownOnce ==
    /\ Len(shown) = text
    /\ \A n \in DOMAIN shown : shown[n] = attempt

\* A rate limit, an overloaded server and a lost connection are tried again until
\* the attempts are used up, and a rejected key or request is not; the message that
\* the status was told as says which, save where what the server adds to it reads
\* as another status.
RetriedAsTold ==
    step = "thrown" /\ ~aborted /\ text = 0 =>
        \/ attempt = maxRetries
        \/ status \in {"401", "404", "400"}
        \/ words \cap {"context_length", "api_key", "400"} # {}

\* No request of a model that reasons carries a temperature with the effort.
BodyIsAccepted ==
    \A model \in {"pro", "flash"}, effort \in {"none", "high"}, perCall, default \in BOOLEAN :
        ~({"reasoning", "temperature"} \subseteq
            reasoningField(model, effort) \cup modelAwareTemperatureField(model, perCall, default))

\* A rejected key, model or request is not asked a second time.
FatalIsFinal == step = "ask" /\ attempt > 0 => status \notin {"401", "404", "400"}

ProviderSound == TypeOK /\ CallsAreMeant /\ ShownOnce /\ RetriedAsTold /\ FatalIsFinal /\ BodyIsAccepted

\* What the messages promise and the code does not do: "Wait a moment and retry" is
\* said of a rate limit, and one whose Retry-After reads "400" is a model error.
RateLimitIsRetried ==
    step = "thrown" /\ ~aborted /\ text = 0 /\ status = "429" => attempt = maxRetries

\* A call whose arguments were cut off reaches the loop as one without arguments.
NoCutCall ==
    step = "response" => \A n \in DOMAIN calls : calls[n].args = WholeArgs(calls[n].id)
=============================================================================
