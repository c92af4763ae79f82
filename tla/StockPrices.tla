---------------------------- MODULE StockPrices -----------------------------
(***************************************************************************)
(* Quotes and K-lines of one stock (internal/stock/collector.go): the      *)
(* memory cache (stock/cache), the two sources Sina and East Money         *)
(* (stock/api) and the files (stock/storage), as the stock tools, the back *)
(* test and the stock handler use them.                                    *)
(*                                                                         *)
(* Actors: the readers, each of which asks once; the market; the cache's   *)
(* cleaner; a crash of the process.                                        *)
(*                                                                         *)
(* Abstractions: a bar is its day and a quote the time at which a source   *)
(* gave it; one period, which both sources have.  The cache's mutex makes  *)
(* each of its operations one step, and so does rename the write of a      *)
(* file: a crash leaves the old file, and a .tmp that nobody reads.        *)
(* Backups are left out: nothing reads them.                               *)
(***************************************************************************)
EXTENDS Integers, FiniteSets

CONSTANTS
  Readers,     \* the requests
  Limits,      \* the numbers of bars that they ask for
  LastDay,     \* bound: days, of one bar each
  LastHour,    \* bound: the clock of the quotes, in units of half a TTL
  NoReader

ASSUME StockPricesAssumption ==
  /\ Limits \subseteq Nat \ {0} /\ LastDay \in Nat \ {0} /\ LastHour \in Nat
  /\ NoReader \notin Readers

QuoteTTL == 2       \* expiry: 1 * time.Hour
Sources  == 1..2    \* NewClients: Sina, then East Money
Never    == -1
NoEntry  == [at |-> Never, until |-> Never]

VARIABLES
  day,         \* the bars 1..day exist
  hour,        \* the time
  barCache,    \* klineData: the bars of the one key, or {} for no entry
  barFile,     \* the bars in historical/day/<code>.json
  quoteCache,  \* stockData: [at |-> when a source gave it, until |-> expiry]
  quoteFile,   \* the quote in realtime/<code>.json, or Never
  fileLock,    \* who holds fileLocks[code_period]
  reader,      \* where each reader is
  source,      \* the source that it asks next
  limit,       \* how many bars it asks for; 0 for a quote
  bars,        \* the bars that it got
  existing,    \* the bars that it read in the file
  quote,       \* the quote that it got, and the hour of the answer
  outage,      \* history: when all sources last failed for a quote
  refused,     \* history: a source failed for bars
  misread      \* history: a read of the bars' file failed before a save

pricesVars == <<day, hour, barCache, barFile, quoteCache, quoteFile, fileLock, reader,
                source, limit, bars, existing, quote, outage, refused, misread>>

PricesInit ==
  /\ day = 1 /\ hour = 0
  /\ barCache = {} /\ barFile \in {{}, {1}}
  /\ quoteCache = NoEntry /\ quoteFile \in {Never, 0}
  /\ fileLock = NoReader
  /\ reader = [r \in Readers |-> "new"] /\ source = [r \in Readers |-> 1]
  /\ limit \in [Readers -> Limits \cup {0}]
  /\ bars = [r \in Readers |-> {}] /\ existing = [r \in Readers |-> {}]
  /\ quote = [r \in Readers |-> [at |-> Never, answered |-> Never]]
  /\ outage = Never /\ refused = FALSE /\ misread = FALSE

-----------------------------------------------------------------------------
ReaderStep(r, from, to) == reader[r] = from /\ reader' = [reader EXCEPT ![r] = to]

(* data[len(data)-limit:] *)
LastOf(S, n) == {b \in S : Cardinality({c \in S : c >= b}) <= n}

(* GetKLineData of the two sources: the last bars of the day.              *)
SinaBars(n)      == LastOf(1..day, n)
EastMoneyBars(n) == LastOf(1..day, n)
BarsOf(s, n)     == IF s = 1 THEN SinaBars(n) ELSE EastMoneyBars(n)

(* SetKLineData: under the code and the period, without a time.            *)
CacheBars(S) == barCache' = S

Give(r, S) == bars' = [bars EXCEPT ![r] = S]
Answer(r, at) == quote' = [quote EXCEPT ![r] = [at |-> at, answered |-> hour]]

(* FetchKLine: the cache, whatever the limit with which it was filled.     *)
BarsCached(r) ==
  /\ limit[r] > 0 /\ barCache # {}
  /\ ReaderStep(r, "new", "over")
  /\ Give(r, LastOf(barCache, limit[r]))
  /\ UNCHANGED <<day, hour, barCache, barFile, quoteCache, quoteFile, fileLock, source,
                 limit, existing, quote, outage, refused, misread>>

BarsMissed(r) ==
  /\ limit[r] > 0 /\ barCache = {}
  /\ ReaderStep(r, "new", "asking")
  /\ UNCHANGED <<day, hour, barCache, barFile, quoteCache, quoteFile, fileLock, source,
                 limit, bars, existing, quote, outage, refused, misread>>

(* GetKLineData of a source: an error, and no bars is one, or the last     *)
(* bars, which go into the cache.                                          *)
BarsAnswered(r) ==
  /\ limit[r] > 0 /\ source[r] \in Sources
  /\ ReaderStep(r, "asking", "locking")
  /\ LET S == BarsOf(source[r], limit[r]) IN Give(r, S) /\ CacheBars(S)
  /\ UNCHANGED <<day, hour, barFile, quoteCache, quoteFile, fileLock, source, limit,
                 existing, quote, outage, refused, misread>>

SourceFails(r) ==
  /\ reader[r] = "asking" /\ source[r] \in Sources
  /\ source' = [source EXCEPT ![r] = @ + 1]
  /\ refused' = (refused \/ limit[r] > 0)
  /\ UNCHANGED <<day, hour, barCache, barFile, quoteCache, quoteFile, fileLock, reader,
                 limit, bars, existing, quote, outage, misread>>

(* The file, whose bars go into the cache; or the error of all sources.    *)
BarsFromFile(r) ==
  /\ limit[r] > 0 /\ source[r] \notin Sources
  /\ ReaderStep(r, "asking", "over")
  /\ Give(r, LastOf(barFile, limit[r]))
  /\ CacheBars(IF barFile = {} THEN barCache ELSE LastOf(barFile, limit[r]))
  /\ UNCHANGED <<day, hour, barFile, quoteCache, quoteFile, fileLock, source, limit,
                 existing, quote, outage, refused, misread>>

-----------------------------------------------------------------------------
F_LockFile(r) ==
  /\ ReaderStep(r, "locking", "reading")
  /\ UNCHANGED <<day, hour, barCache, barFile, quoteCache, quoteFile, source, limit, fileLock,
                 bars, existing, quote, outage, refused, misread>>

(* SaveKLineData: the lock of the key ...                                  *)
LockFile(r) ==
  /\ fileLock = NoReader
  /\ ReaderStep(r, "locking", "reading")
  /\ fileLock' = r
  /\ UNCHANGED <<day, hour, barCache, barFile, quoteCache, quoteFile, source, limit,
                 bars, existing, quote, outage, refused, misread>>

(* ... the bars already there, none when the file cannot be read ...       *)
ReadFile(r) ==
  /\ ReaderStep(r, "reading", "renaming")
  /\ \/ existing' = [existing EXCEPT ![r] = barFile] /\ UNCHANGED misread
     \/ existing' = [existing EXCEPT ![r] = {}] /\ misread' = (misread \/ barFile # {})
  /\ UNCHANGED <<day, hour, barCache, barFile, quoteCache, quoteFile, fileLock, source,
                 limit, bars, quote, outage, refused>>

Merge(old, new) == old \cup new

(* ... and atomicWrite of the merged bars; an error is ignored.            *)
RenameFile(r) ==
  /\ ReaderStep(r, "renaming", "over")
  /\ barFile' \in {barFile, Merge(existing[r], bars[r])}
  /\ fileLock' = NoReader
  /\ UNCHANGED <<day, hour, barCache, quoteCache, quoteFile, source, limit, bars,
                 existing, quote, outage, refused, misread>>

-----------------------------------------------------------------------------
F_Valid(entry) == entry.until # Never

(* FetchRealtime: the cache, unless its entry has expired.                 *)
Valid(entry) == hour <= entry.until

QuoteCached(r) ==
  /\ limit[r] = 0 /\ Valid(quoteCache)
  /\ ReaderStep(r, "new", "over")
  /\ Answer(r, quoteCache.at)
  /\ UNCHANGED <<day, hour, barCache, barFile, quoteCache, quoteFile, fileLock, source,
                 limit, bars, existing, outage, refused, misread>>

QuoteMissed(r) ==
  /\ limit[r] = 0 /\ ~Valid(quoteCache)
  /\ ReaderStep(r, "new", "asking")
  /\ UNCHANGED <<day, hour, barCache, barFile, quoteCache, quoteFile, fileLock, source,
                 limit, bars, existing, quote, outage, refused, misread>>

(* SetStockData gives every quote a whole hour.                            *)
CacheQuote(at) == quoteCache' = [at |-> at, until |-> hour + QuoteTTL]

(* GetStockData of the two sources: the quote of the hour.                 *)
SinaQuote      == hour
EastMoneyQuote == hour
QuoteOf(s)     == IF s = 1 THEN SinaQuote ELSE EastMoneyQuote

QuoteAnswered(r) ==
  /\ limit[r] = 0 /\ source[r] \in Sources
  /\ ReaderStep(r, "asking", "saving")
  /\ LET at == QuoteOf(source[r]) IN CacheQuote(at) /\ Answer(r, at)
  /\ UNCHANGED <<day, hour, barCache, barFile, quoteFile, fileLock, source, limit, bars,
                 existing, outage, refused, misread>>

(* SaveStockData, under a lock of its own; an error is ignored.            *)
SaveQuote(r) ==
  /\ ReaderStep(r, "saving", "over")
  /\ quoteFile' \in {quoteFile, quote[r].at}
  /\ UNCHANGED <<day, hour, barCache, barFile, quoteCache, fileLock, source, limit, bars,
                 existing, quote, outage, refused, misread>>

QuoteFromFile(r) ==
  /\ limit[r] = 0 /\ source[r] \notin Sources
  /\ ReaderStep(r, "asking", "over")
  /\ outage' = hour
  /\ IF quoteFile = Never THEN UNCHANGED <<quoteCache, quote>>
     ELSE CacheQuote(quoteFile) /\ Answer(r, quoteFile)
  /\ UNCHANGED <<day, hour, barCache, barFile, quoteFile, fileLock, source, limit, bars,
                 existing, refused, misread>>

-----------------------------------------------------------------------------
(* cleanup: expired quotes only; no bars ever leave the cache.             *)
CleanCache ==
  /\ quoteCache # NoEntry /\ ~Valid(quoteCache)
  /\ quoteCache' = NoEntry
  /\ UNCHANGED <<day, hour, barCache, barFile, quoteFile, fileLock, reader, source, limit,
                 bars, existing, quote, outage, refused, misread>>

TimePasses ==
  /\ \/ day < LastDay /\ day' = day + 1 /\ UNCHANGED hour
     \/ hour < LastHour /\ hour' = hour + 1 /\ UNCHANGED day
  /\ UNCHANGED <<barCache, barFile, quoteCache, quoteFile, fileLock, reader, source, limit,
                 bars, existing, quote, outage, refused, misread>>

(* The process dies: NewMemoryCache and NewFileStore start anew.           *)
ProcessDies ==
  /\ \E r \in Readers : reader[r] \notin {"new", "over"}
  /\ reader' = [r \in Readers |-> IF reader[r] = "new" THEN "new" ELSE "over"]
  /\ barCache' = {} /\ quoteCache' = NoEntry /\ fileLock' = NoReader
  /\ UNCHANGED <<day, hour, barFile, quoteFile, source, limit, bars, existing, quote,
                 outage, refused, misread>>

PricesNext ==
  \/ \E r \in Readers :
       \/ BarsCached(r) \/ BarsMissed(r) \/ BarsAnswered(r) \/ BarsFromFile(r)
       \/ LockFile(r) \/ ReadFile(r) \/ RenameFile(r) \/ SourceFails(r)
       \/ QuoteCached(r) \/ QuoteMissed(r) \/ QuoteAnswered(r) \/ SaveQuote(r)
       \/ QuoteFromFile(r)
  \/ CleanCache \/ TimePasses \/ ProcessDies

PricesSpec == PricesInit /\ [][PricesNext]_pricesVars

-----------------------------------------------------------------------------
(* Every variable has its type. *)
PricesTypeOK ==
  /\ day \in 1..LastDay /\ hour \in 0..LastHour
  /\ barCache \subseteq 1..day /\ barFile \subseteq 1..day
  /\ quoteCache.at \in {Never} \cup 0..hour /\ quoteCache.until \in {Never} \cup 0..(hour + QuoteTTL)
  /\ quoteFile \in {Never} \cup 0..hour
  /\ fileLock \in Readers \cup {NoReader}
  /\ \A r \in Readers : reader[r] \in {"new", "asking", "locking", "reading", "renaming",
                                       "saving", "over"}

(* SaveKLineData merges: of the bars that a file once had none is lost, by *)
(* readers that save at one time, by a failed write or by a crash; only a  *)
(* file that could not be read is replaced by the new bars alone.          *)
HistoryGrows == [][barFile \subseteq barFile' \/ misread]_pricesVars

(* A quote is at most an hour old when it is given to a reader, or else    *)
(* all sources failed within the last hour: only then is it a file's.      *)
QuotesAreFresh ==
  \A r \in Readers : LET q == quote[r] IN
    q.at # Never => q.answered - q.at <= QuoteTTL
                   \/ (outage # Never /\ q.answered - outage <= QuoteTTL)

(* get_stock_kline says that it returns the last N bars: while no source   *)
(* fails a reader gets as many as it asked for, if there are as many.      *)
AsManyAsAsked ==
  \A r \in Readers :
    bars[r] # {} /\ ~refused => Cardinality(bars[r]) >= limit[r] \/ 1 \in bars[r]

=============================================================================
