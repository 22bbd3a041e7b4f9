----------------------------- MODULE MarketData -----------------------------
(***************************************************************************)
(* data/repository.py, data/cache.py and the checks of data/clean.py: how  *)
(* daily bars reach the rest of the program.                               *)
(*                                                                         *)
(* A frame maps each of its days to the series its bar was taken from:     *)
(* "real" for the configured provider, "synthetic" for the generated bars  *)
(* the repository falls back to.  The program itself keeps no such tag: a  *)
(* FetchResult carries one source for the whole window, which is what      *)
(* Source returns.  The cache is the directory of parquet files, one frame *)
(* per symbol, shared by every process of the deployment.                  *)
(***************************************************************************)
EXTENDS Calendar

CONSTANTS Symbols,        \* tickers asked for
          Listed,         \* Symbols -> the first day the real series has a bar
          TruncatedAt,    \* the last day of a response the provider cut short
          MaxMissingPct   \* validate_ohlcv: max_missing_ratio, in percent

ASSUME MarketDataAssumption == IsFiniteSet(Symbols)

Series == {"real", "synthetic"}

\* What the provider does with one request: a full answer, an answer that
\* stops early, no bars at all, or an exception.
Outcomes == {"full", "truncated", "empty", "raises"}

NoFrame == [d \in {} |-> "real"]
Days(frame) == DOMAIN frame
IsEmpty(frame) == Days(frame) = {}

\* SyntheticDataProvider answers for every session, whatever the symbol.
SyntheticBars(from, to) == [d \in Sessions \cap (from .. to) |-> "synthetic"]

ProviderBars(s, from, to, outcome) ==
  CASE outcome = "full" ->
         [d \in {e \in Sessions \cap (from .. to) : e >= Listed[s]} |-> "real"]
    [] outcome = "truncated" ->
         [d \in {e \in Sessions \cap (from .. to) :
                   e >= Listed[s] /\ e <= TruncatedAt} |-> "real"]
    [] OTHER -> NoFrame

\* MarketDataRepository._fetch: an empty answer and an exception both fall
\* through to the fallback, which is always available.
Fetch(s, from, to, outcome) ==
  LET bars == ProviderBars(s, from, to, outcome)
  IN IF IsEmpty(bars)
     THEN [frame |-> SyntheticBars(from, to), source |-> "synthetic"]
     ELSE [frame |-> bars, source |-> "real"]

CacheCovers(cached, start, end) ==
  /\ ~IsEmpty(cached)
  /\ Earliest(Days(cached)) <= start
  /\ Latest(Days(cached)) >= end

\* _incremental_start: only the tail is fetched when the head is cached, the
\* last cached day included.
FetchStart(cached, start, force, today) ==
  IF force \/ IsEmpty(cached) \/ Earliest(Days(cached)) > start THEN start
  ELSE LET last == Latest(Days(cached))
       IN IF last < start THEN start ELSE IF last < today THEN last ELSE today

\* ParquetCache.merge_write: new rows win, the rest of the file stays.
Merge(existing, new) ==
  [d \in Days(existing) \cup Days(new) |->
     IF d \in Days(new) THEN new[d] ELSE existing[d]]

\* _slice: the requested window, cut before as_of when one is given (0: none).
Slice(frame, start, end, asOf) ==
  [d \in {e \in Days(frame) : /\ start <= e /\ e <= end
                              /\ asOf = 0 \/ e < asOf} |-> frame[d]]

\* validate_ohlcv: sessions are expected from the first bar to the end that
\* was asked for; too many missing ones make the frame unusable.
Unusable(window, end, asOf) ==
  LET last == IF asOf # 0 /\ asOf - 1 < end THEN asOf - 1 ELSE end
      expected == {d \in Sessions : Earliest(Days(window)) <= d /\ d <= last}
  IN /\ ~IsEmpty(window)
     /\ 100 * Cardinality(expected \ Days(window))
          > MaxMissingPct * Cardinality(expected)

\* get_bars.  `fresh` is ParquetCache.is_fresh, which only a cache that ends
\* today can be.  The cache is written before the window is validated.
GetBars(cached, s, start, end, asOf, validate, outcome, fresh, today) ==
  LET served == CacheCovers(cached, start, end) /\ (end < today \/ fresh)
      fetched == Fetch(s, FetchStart(cached, start, FALSE, today), end, outcome)
      frame == IF served THEN cached ELSE Merge(cached, fetched.frame)
      window == Slice(frame, start, end, asOf)
  IN [cache |-> frame,
      error |-> validate /\ Unusable(window, end, asOf),
      window |-> IF validate /\ Unusable(window, end, asOf) THEN NoFrame ELSE window,
      source |-> IF served THEN "cache" ELSE fetched.source]
=============================================================================
