----------------------------- MODULE Embedders ------------------------------
(***************************************************************************)
(* The two model-backed embedders, under calls that overlap.  The remote   *)
(* one posts batch after batch, retries what may be retried, and puts the  *)
(* answer of each batch, which comes in any order, back in the order of    *)
(* its texts.  The local one loads its model at the first call, under a    *)
(* lock, and encodes in a worker thread.  A call may be cancelled at any   *)
(* await.                                                                  *)
(*                                                                         *)
(* A text is its part up to the cap and its rest; a vector is the text it  *)
(* was made of and its size.                                               *)
(***************************************************************************)
EXTENDS Nothing, Integers, Sequences, SequencesExt, FiniteSetsExt, Ordering

CONSTANTS
    Callers,    \* calls of embed_batch that may overlap
    Inputs,     \* the sequences of texts they are called with
    BatchSize,  \* texts in a post
    Dimension   \* the size the collection was made for

MaxAttempts == 3

Vector(text, size) == [of |-> text, size |-> size]

Texts == UNION {ToSet(texts) : texts \in Inputs}

\* A call that was made.
Call ==
    [kind : {"remote", "local"}, texts : Inputs,
     pc : {"start", "backoff", "wait", "load", "encode", "done", "raised"},
     vectors : Seq([of : {t.start : t \in Texts}, size : {Dimension}]),
     attempt : 0..MaxAttempts - 1]

ASSUME EmbedAssumption ==
    /\ Inputs \subseteq Seq(Texts)
    /\ BatchSize \in Nat \ {0} /\ Dimension \in Nat
    /\ None \notin Callers /\ None \notin Call

VARIABLES
    call,       \* caller -> None or [kind, texts, pc, vectors, attempt]
    answer,     \* caller -> None or the vectors returned
    model,      \* the local model: "cold" or "warm"
    lock,       \* _load_lock: None or its holder
    loads,      \* how often the model was loaded
    posts       \* caller -> posts it made for the batch in hand

embedVars == <<call, answer, model, lock, loads, posts>>

\* The tail of a text beyond the cap is not embedded.
Truncated(texts) == [n \in DOMAIN texts |-> texts[n].start]

EmbedInit ==
    /\ call = [c \in Callers |-> None] /\ answer = [c \in Callers |-> None]
    /\ model = "cold" /\ lock = None /\ loads = 0
    /\ posts = [c \in Callers |-> 0]

In(c, kind, pc) == call[c] # None /\ call[c].kind = kind /\ call[c].pc = pc

Goes(c, pc) == call' = [call EXCEPT ![c].pc = pc]

Returns(c, what) ==
    /\ answer' = [answer EXCEPT ![c] = what]
    /\ Goes(c, "done")

Raises(c) == Goes(c, "raised") /\ UNCHANGED answer

\* Nothing to embed needs neither a post nor the model.
EmbedBatch(c, kind, texts) ==
    /\ call[c] = None
    /\ call' = [call EXCEPT ![c] = [kind |-> kind, texts |-> texts, vectors |-> <<>>, attempt |-> 0,
                                    pc |-> IF texts = <<>> THEN "done" ELSE "start"]]
    /\ answer' = [answer EXCEPT ![c] = IF texts = <<>> THEN <<>> ELSE None]
    /\ UNCHANGED <<model, lock, loads, posts>>

---------------------------------------------------------------------------
(* The remote embedder.                                                    *)

Batch(c) ==
    LET done == Len(call[c].vectors) IN
    SubSeq(Truncated(call[c].texts), done + 1, Min({done + BatchSize, Len(call[c].texts)}))

\* What a success may carry: the vectors under their indices in any order,
\* one of them missing, or one of the wrong size.
Data(batch, size) == {[index |-> n, embedding |-> Vector(batch[n], size)] : n \in DOMAIN batch}

Answers(batch) ==
    LET right == Data(batch, Dimension) IN
    SetToSeqs(right) \union SetToSeqs(right \ {CHOOSE d \in right : TRUE})
    \union {Append(SetToSeq(right \ {d}), [d EXCEPT !.embedding.size = Dimension + 1]) : d \in right}

\* Mutant: the vectors are taken in the order of the list.
Listed(data) == data

ByIndex(data) == Ordered(ToSet(data), LAMBDA x, y : x.index < y.index)

\* None for an answer that is refused.
ParseResponse(data, expected) ==
    IF Len(data) # expected THEN None
    ELSE LET vectors == [n \in 1..expected |-> ByIndex(data)[n].embedding] IN
         IF \E n \in 1..expected : vectors[n].size # Dimension THEN None ELSE vectors

Posts(c) == posts' = [posts EXCEPT ![c] = @ + 1]

PostSucceeds(c, data) ==
    LET parsed == ParseResponse(data, Len(Batch(c)))
        all == call[c].vectors \o parsed IN
    /\ In(c, "remote", "start")
    /\ IF parsed = None THEN Posts(c) /\ Raises(c)
       ELSE /\ posts' = [posts EXCEPT ![c] = 0]
            /\ IF Len(all) = Len(call[c].texts) THEN Returns(c, all)
               ELSE /\ call' = [call EXCEPT ![c].vectors = all, ![c].attempt = 0]
                    /\ UNCHANGED answer
    /\ UNCHANGED <<model, lock, loads>>

\* A client error is final.
PostRejected(c) ==
    /\ In(c, "remote", "start")
    /\ Posts(c) /\ Raises(c)
    /\ UNCHANGED <<model, lock, loads>>

\* 429, 5xx and transport errors are retried, but not for ever.
PostFails(c) ==
    /\ In(c, "remote", "start")
    /\ Posts(c)
    /\ IF call[c].attempt < MaxAttempts - 1
       THEN /\ call' = [call EXCEPT ![c].attempt = @ + 1, ![c].pc = "backoff"]
            /\ UNCHANGED answer
       ELSE Raises(c)
    /\ UNCHANGED <<model, lock, loads>>

BackoffEnds(c) ==
    /\ In(c, "remote", "backoff")
    /\ Goes(c, "start")
    /\ UNCHANGED <<answer, model, lock, loads, posts>>

---------------------------------------------------------------------------
(* The local embedder.                                                     *)

\* A warm model is used without the lock.
EnsureModel(c) ==
    /\ In(c, "local", "start")
    /\ Goes(c, IF model = "warm" THEN "encode" ELSE "wait")
    /\ UNCHANGED <<answer, model, lock, loads, posts>>

\* Mutant: whoever gets the lock loads.
NeedsLoad == TRUE

StillCold == model = "cold"

TakeLock(c) ==
    /\ In(c, "local", "wait") /\ lock = None
    /\ IF StillCold THEN lock' = c /\ Goes(c, "load") ELSE UNCHANGED lock /\ Goes(c, "encode")
    /\ UNCHANGED <<answer, model, loads, posts>>

LoadModel(c) ==
    /\ In(c, "local", "load")
    /\ model' = "warm" /\ loads' = loads + 1 /\ lock' = None
    /\ Goes(c, "encode")
    /\ UNCHANGED <<answer, posts>>

LoadFails(c) ==
    /\ In(c, "local", "load")
    /\ lock' = None
    /\ Raises(c)
    /\ UNCHANGED <<model, loads, posts>>

\* A vector of the wrong size fails the whole call.
Encode(c, size) ==
    LET texts == Truncated(call[c].texts) IN
    /\ In(c, "local", "encode")
    /\ IF size # Dimension THEN Raises(c)
       ELSE Returns(c, [n \in DOMAIN texts |-> Vector(texts[n], size)])
    /\ UNCHANGED <<model, lock, loads, posts>>

\* async with gives the lock back.
Cancel(c) ==
    /\ call[c] # None /\ call[c].pc \notin {"done", "raised"}
    /\ lock' = IF lock = c THEN None ELSE lock
    /\ Raises(c)
    /\ UNCHANGED <<model, loads, posts>>

EmbedStep(c) ==
    \/ /\ In(c, "remote", "start")
       /\ \E data \in Answers(Batch(c)) : PostSucceeds(c, data)
    \/ PostRejected(c) \/ PostFails(c) \/ BackoffEnds(c)
    \/ EnsureModel(c) \/ TakeLock(c) \/ LoadModel(c) \/ LoadFails(c)
    \/ \E size \in {Dimension, Dimension + 1} : Encode(c, size)

EmbedNext ==
    \E c \in Callers :
        \/ \E kind \in {"remote", "local"}, texts \in Inputs : EmbedBatch(c, kind, texts)
        \/ call[c] # None /\ (EmbedStep(c) \/ Cancel(c))

EmbedSpec == EmbedInit /\ [][EmbedNext]_embedVars

---------------------------------------------------------------------------
\* A call answers with one vector per text, of the right size, each in the
\* place of the text it was made of, or with an error and no vector: through
\* batches, retries, answers in any order and calls that overlap.  No batch
\* is posted more than three times.  The model is loaded once, whoever fails
\* or is cancelled on the way, and a call that waits for the lock can always
\* go on: its holder is loading.
VectorsAligned ==
    /\ \A c \in Callers :
        /\ answer[c] # None =>
                answer[c] = [n \in DOMAIN call[c].texts |->
                                Vector(Truncated(call[c].texts)[n], Dimension)]
        /\ posts[c] <= MaxAttempts
    /\ loads <= 1 /\ (loads = 1 <=> model = "warm")
    /\ lock # None => In(lock, "local", "load")
=============================================================================
