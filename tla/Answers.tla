------------------------------ MODULE Answers -------------------------------
(* What the embedders, the cache of results and the rate limiter, which    *)
(* share no state, answer their callers.                                   *)
EXTENDS Embedders, RetrievalCache, RateLimiter

\* Every text has its vector, every served result is the one put under its
\* key, and no burst exceeds the bucket.
AnswersFit == VectorsAligned /\ CacheServes /\ RateBounded
=============================================================================
