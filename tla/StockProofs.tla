---------------------------- MODULE StockProofs -----------------------------
(* Proofs about quotes and bars, for any readers, limits, days and hours,  *)
(* and about the list of all stocks, for any stocks and sizes of a page.   *)
EXTENDS StockPrices, StockList, FiniteSetTheorems, SequenceTheorems, TLAPS

Phases == {"new", "asking", "locking", "reading", "renaming", "saving", "over"}
Times  == {Never} \cup 0..hour

PricesTyped ==
  /\ day \in 1..LastDay /\ hour \in 0..LastHour
  /\ barCache \subseteq 1..day /\ barFile \subseteq 1..day
  /\ quoteCache \in [at : Times, until : {Never} \cup 0..(hour + QuoteTTL)]
  /\ quoteFile \in Times /\ outage \in Times
  /\ fileLock \in Readers \cup {NoReader}
  /\ reader \in [Readers -> Phases]
  /\ bars \in [Readers -> SUBSET (1..day)] /\ existing \in [Readers -> SUBSET (1..day)]
  /\ quote \in [Readers -> [at : Times, answered : Times]]

(* A reader between the read and the rename holds the lock, and what it    *)
(* has read is still what the file holds.                                  *)
FileGuarded ==
  \A r \in Readers :
    /\ reader[r] \in {"reading", "renaming"} => fileLock = r
    /\ reader[r] = "renaming" => barFile \subseteq existing[r] \/ misread

(* A quote that was given at one time may be shown until another.          *)
Young(at, until) ==
  at # Never => \/ until - at <= QuoteTTL
                \/ outage # Never /\ until - outage <= QuoteTTL

QuotesYoung ==
  /\ Young(quoteCache.at, quoteCache.until)
  /\ \A r \in Readers : Young(quote[r].at, quote[r].answered)

-----------------------------------------------------------------------------
(* The last bars of some bars are bars among them.                         *)
LEMMA LastOfSubset ==
  ASSUME NEW S, NEW n
  PROVE  LastOf(S, n) \subseteq S
  BY DEF LastOf

LEMMA LongerInterval ==
  ASSUME NEW a \in Nat, NEW b \in Nat, a <= b
  PROVE  0..a \subseteq 0..b /\ 0..(a + 2) \subseteq 0..(b + 2)
  OBVIOUS

LEMMA PricesTypedInit == PricesInit => PricesTyped
  BY StockPricesAssumption DEF PricesInit, PricesTyped, Times, Phases, NoEntry, Never, QuoteTTL

(* The two ways in which time passes.                                      *)
LEMMA TimeTyped ==
  ASSUME PricesTyped, TimePasses
  PROVE  PricesTyped'
<1>1. hour \in Nat /\ day \in Nat /\ LastHour \in Nat /\ LastDay \in Nat
  BY StockPricesAssumption DEF PricesTyped
<1>2. /\ day' \in 1..LastDay /\ hour' \in 0..LastHour /\ hour <= hour'
      /\ 1..day \subseteq 1..day'
  <2>1. day \in 1..LastDay /\ hour \in 0..LastHour
    BY DEF PricesTyped
  <2>2. CASE day < LastDay /\ day' = day + 1 /\ UNCHANGED hour
    BY <1>1, <2>1, <2>2
  <2>3. CASE hour < LastHour /\ hour' = hour + 1 /\ UNCHANGED day
    BY <1>1, <2>1, <2>3
  <2> QED BY <2>2, <2>3 DEF TimePasses
<1>3. Times \subseteq Times' /\ 0..(hour + QuoteTTL) \subseteq 0..(hour' + QuoteTTL)
  <2>1. hour' \in Nat /\ hour <= hour'
    BY <1>1, <1>2
  <2>2. 0..hour \subseteq 0..hour' /\ 0..(hour + 2) \subseteq 0..(hour' + 2)
    BY <1>1, <2>1, LongerInterval
  <2> QED BY <2>2 DEF Times, QuoteTTL
<1>4. quoteCache' \in [at : Times', until : {Never} \cup 0..(hour' + QuoteTTL)]
  BY <1>3 DEF TimePasses, PricesTyped
<1>5. quote' \in [Readers -> [at : Times', answered : Times']]
  BY <1>3 DEF TimePasses, PricesTyped
<1>6. bars' \in [Readers -> SUBSET (1..day')] /\ existing' \in [Readers -> SUBSET (1..day')]
  BY <1>2 DEF TimePasses, PricesTyped
<1> QED BY <1>2, <1>3, <1>4, <1>5, <1>6 DEF TimePasses, PricesTyped, Times

(* The steps of a reader for bars.                                         *)
LEMMA BarsTyped ==
  ASSUME PricesTyped, NEW r \in Readers,
         \/ BarsCached(r) \/ BarsMissed(r) \/ BarsAnswered(r) \/ BarsFromFile(r)
         \/ LockFile(r) \/ ReadFile(r) \/ RenameFile(r) \/ SourceFails(r)
  PROVE  PricesTyped'
<1>1. reader' \in [Readers -> Phases]
  BY DEF BarsCached, BarsMissed, BarsAnswered, BarsFromFile, LockFile, ReadFile, RenameFile,
         SourceFails, ReaderStep, PricesTyped, Phases
<1>2. UNCHANGED <<day, hour, quoteCache, quoteFile, outage, quote>>
  BY DEF BarsCached, BarsMissed, BarsAnswered, BarsFromFile, LockFile, ReadFile, RenameFile,
         SourceFails
<1>3. /\ fileLock' \in Readers \cup {NoReader} /\ barCache' \subseteq 1..day
      /\ barFile' \subseteq 1..day
      /\ bars' \in [Readers -> SUBSET (1..day)] /\ existing' \in [Readers -> SUBSET (1..day)]
  <2>1. CASE BarsCached(r)
    BY <2>1, LastOfSubset DEF BarsCached, Give, PricesTyped
  <2>2. CASE BarsMissed(r) \/ SourceFails(r)
    BY <2>2 DEF BarsMissed, SourceFails, PricesTyped
  <2>3. CASE BarsAnswered(r)
    <3>1. PICK S \in SUBSET (1..day) : Give(r, S) /\ CacheBars(S)
      BY <2>3, LastOfSubset DEF BarsAnswered, BarsOf, SinaBars, EastMoneyBars
    <3> QED BY <2>3, <3>1 DEF BarsAnswered, Give, CacheBars, PricesTyped
  <2>4. CASE BarsFromFile(r)
    BY <2>4, LastOfSubset DEF BarsFromFile, Give, CacheBars, PricesTyped
  <2>5. CASE LockFile(r) \/ ReadFile(r)
    BY <2>5 DEF LockFile, ReadFile, PricesTyped
  <2>6. CASE RenameFile(r)
    BY <2>6 DEF RenameFile, Merge, PricesTyped
  <2> QED BY <2>1, <2>2, <2>3, <2>4, <2>5, <2>6
<1> QED BY <1>1, <1>2, <1>3 DEF PricesTyped, Times

(* The steps of a reader for a quote.                                      *)
LEMMA QuoteTyped ==
  ASSUME PricesTyped, NEW r \in Readers,
         \/ QuoteCached(r) \/ QuoteMissed(r) \/ QuoteAnswered(r) \/ SaveQuote(r)
         \/ QuoteFromFile(r)
  PROVE  PricesTyped'
<1>1. reader' \in [Readers -> Phases]
  BY DEF QuoteCached, QuoteMissed, QuoteAnswered, SaveQuote, QuoteFromFile, ReaderStep,
         PricesTyped, Phases
<1>2. UNCHANGED <<day, hour, barCache, barFile, fileLock, bars, existing>>
  BY DEF QuoteCached, QuoteMissed, QuoteAnswered, SaveQuote, QuoteFromFile
<1>3. hour \in Nat /\ hour \in Times
  BY StockPricesAssumption DEF PricesTyped, Times
<1>4. ASSUME NEW at \in Times, Answer(r, at)
      PROVE  quote' \in [Readers -> [at : Times, answered : Times]]
  BY <1>3, <1>4 DEF Answer, PricesTyped
<1>5. ASSUME NEW at \in Times, CacheQuote(at)
      PROVE  quoteCache' \in [at : Times, until : {Never} \cup 0..(hour + QuoteTTL)]
  BY <1>3, <1>5 DEF CacheQuote, QuoteTTL
<1>6. /\ quoteCache' \in [at : Times, until : {Never} \cup 0..(hour + QuoteTTL)]
      /\ quoteFile' \in Times /\ outage' \in Times
      /\ quote' \in [Readers -> [at : Times, answered : Times]]
  <2>1. CASE QuoteCached(r)
    BY <1>4, <2>1 DEF QuoteCached, PricesTyped
  <2>2. CASE QuoteMissed(r) \/ SaveQuote(r)
    BY <2>2 DEF QuoteMissed, SaveQuote, PricesTyped
  <2>3. CASE QuoteAnswered(r)
    <3>1. CacheQuote(hour) /\ Answer(r, hour)
      BY <2>3 DEF QuoteAnswered, QuoteOf, SinaQuote, EastMoneyQuote
    <3> QED BY <1>3, <1>4, <1>5, <2>3, <3>1 DEF QuoteAnswered, PricesTyped
  <2>4. CASE QuoteFromFile(r)
    BY <1>3, <1>4, <1>5, <2>4 DEF QuoteFromFile, PricesTyped
  <2> QED BY <2>1, <2>2, <2>3, <2>4
<1> QED BY <1>1, <1>2, <1>6 DEF PricesTyped, Times

LEMMA PricesTypedStep == PricesTyped /\ [PricesNext]_pricesVars => PricesTyped'
<1> SUFFICES ASSUME PricesTyped, [PricesNext]_pricesVars
             PROVE  PricesTyped'
  OBVIOUS
<1>1. CASE UNCHANGED pricesVars
  BY <1>1 DEF pricesVars, PricesTyped, Times
<1>2. CASE CleanCache
  BY <1>2, StockPricesAssumption DEF CleanCache, PricesTyped, Times, NoEntry
<1>3. CASE ProcessDies
  <2>1. reader' \in [Readers -> Phases]
    BY <1>3 DEF ProcessDies, Phases
  <2> QED BY <1>3, <2>1, StockPricesAssumption DEF ProcessDies, PricesTyped, Times, NoEntry
<1> QED BY <1>1, <1>2, <1>3, TimeTyped, BarsTyped, QuoteTyped DEF PricesNext

-----------------------------------------------------------------------------
(* Only its holder touches a bar file.                                     *)
LEMMA FileGuardedStep ==
  ASSUME PricesTyped, FileGuarded, [PricesNext]_pricesVars
  PROVE  FileGuarded' /\ (barFile \subseteq barFile' \/ misread)
<1> USE StockPricesAssumption
<1>1. ASSUME UNCHANGED <<barFile, fileLock, existing, misread>>,
             \A r \in Readers : reader'[r] \in {"reading", "renaming"} => reader'[r] = reader[r]
      PROVE  FileGuarded' /\ (barFile \subseteq barFile' \/ misread)
  BY <1>1 DEF FileGuarded
<1>2. ASSUME NEW r \in Readers,
             \/ BarsCached(r) \/ BarsMissed(r) \/ BarsAnswered(r) \/ BarsFromFile(r)
             \/ SourceFails(r)
      PROVE  FileGuarded' /\ (barFile \subseteq barFile' \/ misread)
  BY <1>1, <1>2 DEF BarsCached, BarsMissed, BarsAnswered, BarsFromFile, SourceFails,
                    ReaderStep, PricesTyped
<1>3. ASSUME NEW r \in Readers,
             \/ QuoteCached(r) \/ QuoteMissed(r) \/ QuoteAnswered(r) \/ SaveQuote(r)
             \/ QuoteFromFile(r)
      PROVE  FileGuarded' /\ (barFile \subseteq barFile' \/ misread)
  BY <1>1, <1>3 DEF QuoteCached, QuoteMissed, QuoteAnswered, SaveQuote, QuoteFromFile,
                    ReaderStep, PricesTyped
<1>4. CASE CleanCache \/ TimePasses \/ UNCHANGED pricesVars
  BY <1>1, <1>4 DEF CleanCache, TimePasses, pricesVars
<1>5. CASE ProcessDies
  BY <1>5 DEF ProcessDies, FileGuarded
<1>6. ASSUME NEW r \in Readers, LockFile(r)
      PROVE  FileGuarded' /\ (barFile \subseteq barFile' \/ misread)
  BY <1>6 DEF LockFile, ReaderStep, FileGuarded, PricesTyped
<1>7. ASSUME NEW r \in Readers, ReadFile(r)
      PROVE  FileGuarded' /\ (barFile \subseteq barFile' \/ misread)
  <2>1. \A q \in Readers \ {r} : UNCHANGED <<reader[q], existing[q]>>
    BY <1>7 DEF ReadFile, ReaderStep, PricesTyped
  <2>2. barFile \subseteq existing'[r] \/ misread'
    BY <1>7 DEF ReadFile, PricesTyped
  <2>3. fileLock = r
    BY <1>7 DEF ReadFile, ReaderStep, FileGuarded
  <2>4. UNCHANGED <<barFile, fileLock>>
    BY <1>7 DEF ReadFile
  <2>5. misread => misread'
    BY <1>7, Zenon DEF ReadFile
  <2> QED BY <2>1, <2>2, <2>3, <2>4, <2>5 DEF FileGuarded
<1>8. ASSUME NEW r \in Readers, RenameFile(r)
      PROVE  FileGuarded' /\ (barFile \subseteq barFile' \/ misread)
  <2>1. fileLock = r /\ (barFile \subseteq existing[r] \/ misread)
    BY <1>8 DEF RenameFile, ReaderStep, FileGuarded
  <2>2. \A q \in Readers : reader'[q] \notin {"reading", "renaming"}
    BY <1>8, <2>1 DEF RenameFile, ReaderStep, FileGuarded, PricesTyped
  <2> QED BY <1>8, <2>1, <2>2 DEF RenameFile, Merge, FileGuarded
<1> QED BY <1>2, <1>3, <1>4, <1>5, <1>6, <1>7, <1>8 DEF PricesNext

(* A quote grows older only in the hands of no one: whoever is given it    *)
(* notes the hour.                                                         *)
LEMMA QuotesYoungStep ==
  ASSUME PricesTyped, QuotesYoung, [PricesNext]_pricesVars
  PROVE  QuotesYoung'
<1> USE StockPricesAssumption
<1>0. hour \in Nat /\ Never = -1
  BY DEF PricesTyped, Never
<1>1. ASSUME UNCHANGED <<quoteCache, quote, outage>>
      PROVE  QuotesYoung'
  BY <1>1 DEF QuotesYoung, Young
<1>2. ASSUME NEW r \in Readers,
             \/ BarsCached(r) \/ BarsMissed(r) \/ BarsAnswered(r) \/ BarsFromFile(r)
             \/ LockFile(r) \/ ReadFile(r) \/ RenameFile(r) \/ SourceFails(r)
             \/ QuoteMissed(r) \/ SaveQuote(r)
      PROVE  QuotesYoung'
  BY <1>1, <1>2 DEF BarsCached, BarsMissed, BarsAnswered, BarsFromFile, LockFile, ReadFile,
                    RenameFile, SourceFails, QuoteMissed, SaveQuote
<1>3. CASE TimePasses \/ UNCHANGED pricesVars
  BY <1>1, <1>3 DEF TimePasses, pricesVars
<1>4. CASE CleanCache \/ ProcessDies
  BY <1>4 DEF CleanCache, ProcessDies, QuotesYoung, Young, NoEntry
<1>5. ASSUME NEW r \in Readers, QuoteCached(r)
      PROVE  QuotesYoung'
  <2>1. Young(quoteCache.at, hour)
    BY <1>0, <1>5 DEF QuoteCached, Valid, QuotesYoung, Young, PricesTyped, Times, QuoteTTL
  <2>2. UNCHANGED <<quoteCache, outage, hour>> /\ Answer(r, quoteCache.at)
    BY <1>5 DEF QuoteCached
  <2>3. quote' = [quote EXCEPT ![r] = [at |-> quoteCache.at, answered |-> hour]]
    BY <2>2 DEF Answer
  <2>4. \A q \in Readers : \/ quote'[q].at = quoteCache.at /\ quote'[q].answered = hour
                           \/ quote'[q] = quote[q]
    BY <2>3 DEF PricesTyped
  <2> QED BY <2>1, <2>2, <2>4 DEF QuotesYoung, Young
<1>6. ASSUME NEW r \in Readers, QuoteAnswered(r)
      PROVE  QuotesYoung'
  <2>1. quoteCache' = [at |-> hour, until |-> hour + QuoteTTL]
        /\ quote' = [quote EXCEPT ![r] = [at |-> hour, answered |-> hour]]
        /\ outage' = outage
    BY <1>6 DEF QuoteAnswered, QuoteOf, SinaQuote, EastMoneyQuote, CacheQuote, Answer
  <2>2. \A q \in Readers : \/ quote'[q].at = hour /\ quote'[q].answered = hour
                           \/ quote'[q] = quote[q]
    BY <2>1 DEF PricesTyped
  <2>3. quoteCache'.at = hour /\ quoteCache'.until = hour + QuoteTTL
    BY <2>1
  <2>4. Young(quoteCache.at, quoteCache.until)'
    BY <1>0, <2>1, <2>3 DEF Young, QuoteTTL
  <2>5. ASSUME NEW q \in Readers
        PROVE  Young(quote[q].at, quote[q].answered)'
    BY <1>0, <2>1, <2>2 DEF QuotesYoung, Young, QuoteTTL
  <2> QED BY <2>4, <2>5 DEF QuotesYoung
<1>7. ASSUME NEW r \in Readers, QuoteFromFile(r)
      PROVE  QuotesYoung'
  <2>1. outage' = hour /\ outage' # Never
    BY <1>0, <1>7 DEF QuoteFromFile
  <2>2. ASSUME NEW at, NEW until \in Int, Young(at, until)
        PROVE  Young(at, until)'
    BY <1>0, <2>1, <2>2 DEF Young, PricesTyped, Times, QuoteTTL
  <2>3. quoteCache.until \in Int /\ \A q \in Readers : quote[q].answered \in Int
    BY <1>0 DEF PricesTyped, Times, QuoteTTL
  <2>4. CASE quoteFile = Never
    BY <1>7, <2>2, <2>3, <2>4 DEF QuoteFromFile, QuotesYoung
  <2>5. CASE quoteFile # Never
    <3>1. quoteCache' = [at |-> quoteFile, until |-> hour + QuoteTTL]
          /\ quote' = [quote EXCEPT ![r] = [at |-> quoteFile, answered |-> hour]]
      BY <1>7, <2>5 DEF QuoteFromFile, CacheQuote, Answer
    <3>2. \A q \in Readers : \/ quote'[q].answered = hour
                             \/ quote'[q] = quote[q]
      BY <3>1 DEF PricesTyped
    <3>3. hour - outage' <= QuoteTTL /\ hour + QuoteTTL - outage' <= QuoteTTL
      BY <1>0, <2>1 DEF QuoteTTL
    <3>4. Young(quoteCache.at, quoteCache.until)'
      <4>1. quoteCache'.until = hour + QuoteTTL
        BY <3>1
      <4> QED BY <1>0, <2>1, <4>1 DEF Young, QuoteTTL
    <3>5. ASSUME NEW q \in Readers
          PROVE  Young(quote[q].at, quote[q].answered)'
      BY <2>1, <2>2, <2>3, <3>2, <3>3 DEF Young, QuotesYoung
    <3> QED BY <3>4, <3>5 DEF QuotesYoung
  <2> QED BY <2>4, <2>5
<1> QED BY <1>2, <1>3, <1>4, <1>5, <1>6, <1>7 DEF PricesNext

LEMMA PricesInit3 == PricesInit => PricesTyped /\ FileGuarded /\ QuotesYoung
  BY PricesTypedInit DEF PricesInit, FileGuarded, QuotesYoung, Young, NoEntry

-----------------------------------------------------------------------------
(* The variables of the prices keep their types.                           *)
THEOREM PricesTypeCorrect == PricesSpec => []PricesTypeOK
<1>1. PricesTyped => PricesTypeOK
  BY DEF PricesTyped, PricesTypeOK, Times, Phases
<1> QED BY <1>1, PricesTypedInit, PricesTypedStep, PTL DEF PricesSpec

(* However many readers save at one time, and whatever writes fail, a bar  *)
(* that was in the file of a stock stays in it (SaveKLineData), unless a   *)
(* read of the file failed.                                                *)
THEOREM HistoryKept == PricesSpec => HistoryGrows
<1>1. PricesTyped /\ FileGuarded /\ [PricesNext]_pricesVars => FileGuarded'
  BY FileGuardedStep
<1>2. PricesTyped /\ FileGuarded /\ [PricesNext]_pricesVars
        => [barFile \subseteq barFile' \/ misread]_pricesVars
  BY FileGuardedStep
<1> QED BY <1>1, <1>2, PricesInit3, PricesTypedStep, PTL DEF PricesSpec, HistoryGrows

(* A quote that a reader is given is at most an hour old, or all sources   *)
(* failed within the hour (FetchRealtime, SetStockData).                   *)
THEOREM QuotesFresh == PricesSpec => []QuotesAreFresh
<1>1. PricesTyped /\ QuotesYoung => QuotesAreFresh
  BY DEF QuotesYoung, Young, QuotesAreFresh
<1>2. PricesTyped /\ QuotesYoung /\ [PricesNext]_pricesVars => QuotesYoung'
  BY QuotesYoungStep
<1> QED BY <1>1, <1>2, PricesInit3, PricesTypedStep, PTL DEF PricesSpec

-----------------------------------------------------------------------------
(* What a host has told of its list before the page that comes next.       *)
Upto(n) == IF n * PageSize < Total THEN n * PageSize ELSE Total

ListTyped ==
  /\ ranking \in Rankings /\ moves \in 0..MaxMoves /\ hasTotal \in BOOLEAN
  /\ rows \subseteq Listed /\ table \subseteq Listed /\ count \in Nat
  /\ sync \in {"fetching", "begin", "inserting", "over"}
  /\ attempt \in 1..Attempts /\ host \in Hosts /\ page \in 1..MaxPages
  /\ all \in Seq(Listed) /\ withheld \subseteq Listed

(* The pages follow one another: a stock that is not yet read stands on a  *)
(* page to come or is withheld, and what is written to the table is all    *)
(* that was read.                                                          *)
PagesFollow ==
  /\ rows = {} \/ Listed \ rows \subseteq withheld
  /\ sync # "over" => rows = {}
  /\ sync = "fetching" => /\ Len(all) = Upto(page - 1)
                          /\ Listed \ Codes(all) \subseteq withheld \cup From(ranking, page)
  /\ sync \in {"begin", "inserting"} => Listed \ Codes(all) \subseteq withheld

ListInv == ListTyped /\ PagesFollow

LEMMA ListNumbers ==
  /\ Total \in Nat /\ PageSize \in Nat \ {0} /\ MaxPages \in Nat \ {0}
  /\ MaxPages * PageSize > Total /\ Attempts \in Nat \ {0} /\ MaxMoves \in Nat
<1>1. Total \in Nat
  BY FS_CardinalityType, StockListAssumption DEF Total
<1>2. PageSize \in Nat \ {0} /\ MaxPages \in Nat /\ MaxPages * PageSize > Total
  BY StockListAssumption DEF Total
<1>3. 0 * PageSize = 0
  BY <1>2
<1>4. MaxPages # 0
  BY <1>1, <1>2, <1>3
<1> QED BY <1>1, <1>2, <1>4, StockListAssumption

(* The pages of a host end where the next one begins.                      *)
LEMMA UptoNext ==
  ASSUME NEW n \in Nat \ {0}
  PROVE  /\ Upto(n - 1) \in 0..Total /\ Upto(n) \in 0..Total
         /\ (n - 1) * PageSize \in Nat
         /\ (n - 1) * PageSize < Total => (n - 1) * PageSize + 1 <= Upto(n)
         /\ (n - 1) * PageSize >= Total => Upto(n) = Total
         /\ Upto(1 - 1) = 0 /\ Upto(MaxPages) = Total
<1> DEFINE a == (n - 1) * PageSize
<1>1. a \in Nat /\ n * PageSize = a + PageSize /\ 0 * PageSize = 0
  BY ListNumbers
<1>2. Upto(n - 1) = (IF a < Total THEN a ELSE Total)
      /\ Upto(n) = (IF a + PageSize < Total THEN a + PageSize ELSE Total)
  BY <1>1 DEF Upto
<1>3. Upto(MaxPages) = Total
  BY ListNumbers DEF Upto
<1>4. Upto(1 - 1) = 0
  <2>1. Upto(0) = (IF 0 < Total THEN 0 ELSE Total)
    BY <1>1 DEF Upto
  <2> QED BY <2>1, ListNumbers
<1> HIDE DEF a
<1>5. Upto(n - 1) \in 0..Total /\ Upto(n) \in 0..Total /\ a \in Nat
      /\ (a < Total => a + 1 <= Upto(n)) /\ (a >= Total => Upto(n) = Total)
  BY <1>1, <1>2, ListNumbers
<1> QED BY <1>3, <1>4, <1>5 DEF a

LEMMA PageProperties ==
  ASSUME ListTyped
  PROVE  /\ PageOf(page) \in Seq(Listed)
         /\ (page - 1) * PageSize < Total =>
              /\ Len(PageOf(page)) = Upto(page) - (page - 1) * PageSize
              /\ PageOf(page) # << >>
              /\ \A i \in 1..Len(PageOf(page)) :
                   PageOf(page)[i] = ranking[(page - 1) * PageSize + i]
         /\ (page - 1) * PageSize >= Total => PageOf(page) = << >>
<1> DEFINE a == (page - 1) * PageSize
           u == Upto(page)
<1>1. /\ a \in Nat /\ u \in 0..Total /\ Total \in Nat
      /\ (a < Total => a + 1 <= u) /\ (a >= Total => u = Total)
      /\ ranking \in [1..Total -> Listed]
  BY UptoNext, ListNumbers DEF ListTyped, Rankings
<1>2. PageOf(page) = SubSeq(ranking, a + 1, u)
  BY DEF PageOf, Upto
<1> HIDE DEF a, u
<1>3. a + 1 \in Int /\ u \in Int /\ \A i \in (a + 1)..u : ranking[i] \in Listed
  BY <1>1
<1>4. /\ SubSeq(ranking, a + 1, u) \in Seq(Listed)
      /\ Len(SubSeq(ranking, a + 1, u)) = IF a + 1 <= u THEN u - (a + 1) + 1 ELSE 0
      /\ \A i \in 1..(u - (a + 1) + 1) :
           SubSeq(ranking, a + 1, u)[i] = ranking[(a + 1) + i - 1]
  BY <1>3, SubSeqProperties
<1>5. a >= Total => SubSeq(ranking, a + 1, u) = << >>
  BY <1>1, <1>3, SubSeqEmpty
<1>6. ASSUME a < Total
      PROVE  /\ Len(SubSeq(ranking, a + 1, u)) = u - a /\ u - a > 0
             /\ \A i \in 1..(u - a) : SubSeq(ranking, a + 1, u)[i] = ranking[a + i]
  <2>1. Len(SubSeq(ranking, a + 1, u)) = u - a /\ u - a > 0
    BY <1>1, <1>4, <1>6
  <2>2. ASSUME NEW i \in 1..(u - a)
        PROVE  SubSeq(ranking, a + 1, u)[i] = ranking[a + i]
    <3>1. i \in 1..(u - (a + 1) + 1) /\ (a + 1) + i - 1 = a + i
      BY <1>1
    <3> QED BY <3>1, <1>4
  <2> QED BY <2>1, <2>2
<1>7. a < Total => SubSeq(ranking, a + 1, u) # << >>
  <2>1. Len(<< >>) = 0
    BY EmptySeq
  <2> QED BY <1>1, <1>6, <2>1
<1> QED BY <1>2, <1>4, <1>5, <1>6, <1>7 DEF a, u

LEMMA FromIs ==
  ASSUME NEW order, NEW n, NEW k, (n - 1) * PageSize = k
  PROVE  From(order, n) = {order[i] : i \in k + 1 .. Total}
  BY DEF From

(* Every stock stands on some page.                                        *)
LEMMA FromPages ==
  ASSUME NEW order \in Rankings, NEW n \in Nat \ {0}
  PROVE  From(order, n) \subseteq Listed /\ From(order, 1) = Listed
<1> DEFINE a == (n - 1) * PageSize
<1>1. a \in Nat /\ (1 - 1) * PageSize = 0 /\ Total \in Nat
  BY ListNumbers
<1>2. order \in [1..Total -> Listed] /\ {order[i] : i \in 1..Total} = Listed
  BY DEF Rankings, Codes
<1>3. From(order, n) = {order[i] : i \in a + 1 .. Total}
  BY DEF From
<1> HIDE DEF a
<1>4. From(order, n) \subseteq Listed
  BY <1>1, <1>2, <1>3
<1>5. From(order, 1) = {order[i] : i \in (1 - 1) * PageSize + 1 .. Total}
  BY DEF From
<1>6. (1 - 1) * PageSize + 1 = 1
  BY <1>1
<1> QED BY <1>2, <1>4, <1>5, <1>6

(* What stands from a page on stands on that page or behind it.            *)
LEMMA PageThenRest ==
  ASSUME ListTyped
  PROVE  /\ From(ranking, page) \subseteq Codes(PageOf(page)) \cup From(ranking, page + 1)
         /\ Upto(page) = Total => From(ranking, page + 1) = {}
<1> DEFINE a == (page - 1) * PageSize
           b == page * PageSize
           got == PageOf(page)
<1>1. page \in Nat \ {0} /\ Total \in Nat /\ PageSize \in Nat \ {0}
  BY ListNumbers DEF ListTyped
<1>0. PICK next \in Nat : next = page + 1
  BY <1>1
<1>2. a \in Nat /\ b = a + PageSize /\ (next - 1) * PageSize = b
      /\ Upto(page) = IF b < Total THEN b ELSE Total
  BY <1>0, <1>1 DEF Upto
<1>3. /\ From(ranking, page) = {ranking[i] : i \in a + 1 .. Total}
      /\ From(ranking, next) = {ranking[i] : i \in b + 1 .. Total}
  BY <1>2, FromIs
<1>4. /\ got \in Seq(Listed)
      /\ a < Total => /\ Len(got) = Upto(page) - a
                      /\ \A i \in 1..Len(got) : got[i] = ranking[a + i]
  BY PageProperties
<1> HIDE DEF a, b, got
<1>5. ASSUME NEW i \in a + 1 .. Total
      PROVE  ranking[i] \in Codes(got) \/ i \in b + 1 .. Total
  <2>1. CASE i <= b
    <3>1. a < Total /\ i - a \in 1..(Upto(page) - a) /\ a + (i - a) = i
      BY <1>1, <1>2, <2>1
    <3>2. i - a \in 1..Len(got) /\ got[i - a] = ranking[i]
      BY <1>4, <3>1
    <3>3. i - a \in DOMAIN got
      BY <1>4, <3>2, LenProperties
    <3> QED BY <3>2, <3>3 DEF Codes
  <2>2. CASE ~(i <= b)
    BY <1>1, <1>2, <2>2
  <2> QED BY <2>1, <2>2
<1>6. Upto(page) = Total => b + 1 .. Total = {}
  BY <1>1, <1>2
<1>7. /\ From(ranking, page) \subseteq Codes(got) \cup From(ranking, next)
      /\ Upto(page) = Total => From(ranking, next) = {}
  BY <1>3, <1>5, <1>6
<1> QED BY <1>0, <1>7 DEF got

LEMMA Appended ==
  ASSUME ListTyped, NEW got \in Seq(Listed)
  PROVE  /\ all \o got \in Seq(Listed) /\ Len(all \o got) = Len(all) + Len(got)
         /\ Len(all) \in Nat /\ Len(got) \in Nat
         /\ Codes(all) \cup Codes(got) \subseteq Codes(all \o got)
<1>1. all \in Seq(Listed)
  BY DEF ListTyped
<1>2. /\ all \o got \in Seq(Listed) /\ Len(all \o got) = Len(all) + Len(got)
      /\ \A i \in 1..(Len(all) + Len(got)) :
           (all \o got)[i] = IF i <= Len(all) THEN all[i] ELSE got[i - Len(all)]
  BY <1>1, ConcatProperties
<1>3. Len(all) \in Nat /\ Len(got) \in Nat
  BY <1>1, LenProperties
<1>4. \A i \in 1..Len(all) : (all \o got)[i] = all[i]
  BY <1>2, <1>3
<1>5. ASSUME NEW i \in 1..Len(got)
      PROVE  (all \o got)[Len(all) + i] = got[i]
  <2>1. Len(all) + i \in 1..(Len(all) + Len(got)) /\ ~(Len(all) + i <= Len(all))
        /\ Len(all) + i - Len(all) = i
    BY <1>3
  <2> QED BY <2>1, <1>2
<1>6. ASSUME NEW i \in DOMAIN all PROVE all[i] \in Codes(all \o got)
  <2>1. i \in 1..Len(all) /\ i \in DOMAIN (all \o got)
    BY <1>1, <1>2, <1>3, LenProperties
  <2> QED BY <1>4, <2>1 DEF Codes
<1>7. ASSUME NEW i \in DOMAIN got PROVE got[i] \in Codes(all \o got)
  <2>1. i \in 1..Len(got) /\ Len(all) + i \in DOMAIN (all \o got)
    BY <1>2, <1>3, LenProperties
  <2>2. (all \o got)[Len(all) + i] = got[i]
    BY <1>5, <2>1
  <2> QED BY <2>1, <2>2 DEF Codes
<1> QED BY <1>2, <1>3, <1>6, <1>7 DEF Codes

(* With its page the list goes on where it ended.                          *)
LEMMA NextPageFollows ==
  ASSUME ListTyped, Len(all) = Upto(page - 1)
  PROVE  Len(all \o PageOf(page)) = Upto(page)
<1> DEFINE a == (page - 1) * PageSize
           got == PageOf(page)
<1>1. page \in Nat \ {0} /\ page \in 1..MaxPages
  BY ListNumbers DEF ListTyped
<1>2. /\ a \in Nat /\ Upto(page) \in 0..Total /\ Total \in Nat
      /\ (a >= Total => Upto(page) = Total)
      /\ Upto(page - 1) = IF a < Total THEN a ELSE Total
  BY <1>1, UptoNext, ListNumbers DEF Upto
<1>3. /\ got \in Seq(Listed)
      /\ (a < Total => Len(got) = Upto(page) - a)
      /\ (a >= Total => got = << >>)
  BY PageProperties
<1>4. Len(all \o got) = Len(all) + Len(got)
  BY <1>3, Appended
<1>5. a >= Total => Len(got) = 0
  BY <1>3, EmptySeq
<1> HIDE DEF a, got
<1> QED BY <1>2, <1>3, <1>4, <1>5 DEF got

LEMMA CodesListed ==
  ASSUME NEW s \in Seq(Listed)
  PROVE  Codes(s) \subseteq Listed
  BY LenProperties DEF Codes

LEMMA ListFirst == ListInit => ListInv
<1> SUFFICES ASSUME ListInit PROVE ListInv
  OBVIOUS
<1>1. ListTyped
  <2>1. rows \subseteq Listed /\ count \in Nat
    BY FS_CardinalityType, FS_Subset, StockListAssumption DEF ListInit
  <2>2. all \in Seq(Listed) /\ page \in 1..MaxPages /\ withheld \subseteq Listed
    BY ListNumbers, EmptySeq DEF ListInit
  <2> QED BY <2>1, <2>2, ListNumbers DEF ListInit, ListTyped, Hosts
<1>2. Len(all) = Upto(page - 1) /\ From(ranking, page) = Listed
  BY UptoNext, EmptySeq, FromPages DEF ListInit
<1> QED BY <1>1, <1>2 DEF ListInv, PagesFollow, ListInit

(* Another host, another attempt or another process reads from the first   *)
(* page on.                                                                *)
LEMMA FreshStart ==
  ASSUME ListInv, rows = {}, UNCHANGED <<ranking, moves, hasTotal, rows>>,
         all' = << >>, page' = 1, withheld' = {}, table' \subseteq Listed, count' \in Nat,
         sync' \in {"fetching", "over"}, attempt' \in 1..Attempts, host' \in Hosts
  PROVE  ListInv'
<1>1. all' \in Seq(Listed) /\ Len(all') = 0 /\ page' \in 1..MaxPages
  BY ListNumbers, EmptySeq
<1>2. ListTyped'
  BY <1>1 DEF ListInv, ListTyped, Rankings, Codes, Total
<1>3. Upto(page - 1)' = 0
  BY UptoNext DEF Upto, Total
<1>4. From(ranking, page)' = Listed
  <2>1. From(ranking, 1) = Listed
    BY FromPages DEF ListInv, ListTyped
  <2> QED BY <2>1 DEF From, Total
<1>5. PagesFollow'
  BY <1>1, <1>3, <1>4 DEF PagesFollow
<1> QED BY <1>2, <1>5 DEF ListInv

LEMMA HostGivenUp ==
  ASSUME ListInv, sync = "fetching", NextHost, UNCHANGED <<ranking, moves, hasTotal, rows, table, count>>
  PROVE  ListInv'
<1>1. /\ all' = << >> /\ page' = 1 /\ withheld' = {}
      /\ sync' \in {"fetching", "over"} /\ attempt' \in 1..Attempts /\ host' \in Hosts
  BY ListNumbers DEF ListInv, ListTyped, NextHost, Retry, Hosts
<1>2. rows = {} /\ table' \subseteq Listed /\ count' \in Nat
  BY DEF ListInv, ListTyped, PagesFollow
<1> QED BY <1>1, <1>2, FreshStart

(* A page is added to the list, or ends it where it comes empty.           *)
LEMMA PageKeeps ==
  ASSUME ListInv, sync = "fetching", NEW got \in {PageOf(page), << >>},
         all' = all \o got,
         withheld' = IF got = << >> THEN withheld \cup From(ranking, page) ELSE withheld,
         IF LastPage(got) THEN sync' = "begin" /\ UNCHANGED page
                          ELSE page' = page + 1 /\ UNCHANGED sync,
         UNCHANGED <<attempt, host, ranking, moves, hasTotal, rows, table, count>>
  PROVE  ListInv'
<1>1. ListTyped /\ PagesFollow /\ page \in Nat \ {0} /\ page \in 1..MaxPages
  BY ListNumbers DEF ListInv, ListTyped
<1>2. got \in Seq(Listed) /\ all \o got \in Seq(Listed)
      /\ Codes(all) \cup Codes(got) \subseteq Codes(all \o got)
  BY <1>1, PageProperties, Appended, EmptySeq
<1>3. From(ranking, page) \subseteq Listed
  BY <1>1, FromPages DEF ListTyped
<1>4. ListTyped'
  <2>1. page' \in 1..MaxPages /\ sync' \in {"fetching", "begin", "inserting", "over"}
    BY <1>1, ListNumbers DEF LastPage, ListTyped
  <2>2. Rankings' = Rankings
    BY DEF Rankings, Codes, Total
  <2>3. withheld' \subseteq Listed
    BY <1>1, <1>3 DEF ListTyped
  <2> QED BY <1>1, <1>2, <2>1, <2>2, <2>3 DEF ListTyped
<1>5. /\ rows = {} /\ Len(all) = Upto(page - 1)
      /\ Listed \ Codes(all) \subseteq withheld \cup From(ranking, page)
  BY <1>1 DEF PagesFollow
<1>6. CASE got = << >>
  <2>1. sync' = "begin"
    BY <1>6 DEF LastPage
  <2>2. Listed \ Codes(all)' \subseteq withheld'
    BY <1>2, <1>5, <1>6 DEF Codes
  <2> QED BY <1>4, <1>5, <2>1, <2>2 DEF ListInv, PagesFollow
<1>7. CASE got # << >>
  <2>1. got = PageOf(page) /\ withheld' = withheld
    BY <1>7
  <2>2. Len(all') = Upto(page)
    BY <1>1, <1>5, <2>1, NextPageFollows
  <2>3. Listed \ Codes(all') \subseteq withheld' \cup From(ranking, page + 1)
    <3>1. From(ranking, page) \subseteq Codes(got) \cup From(ranking, page + 1)
      BY <1>1, <2>1, PageThenRest
    <3>2. Codes(all) \cup Codes(got) \subseteq Codes(all')
      BY <1>2
    <3> HIDE DEF Codes
    <3> QED BY <1>5, <2>1, <3>1, <3>2
  <2>4. CASE LastPage(got)
    <3>1. Upto(page) = Total
      <4>1. Upto(page) \in 0..Total /\ Total \in Nat /\ Upto(MaxPages) = Total
        BY <1>1, UptoNext, ListNumbers
      <4> QED BY <1>7, <2>2, <2>4, <4>1 DEF LastPage
    <3>2. Listed \ Codes(all') \subseteq withheld'
      BY <1>1, <2>3, <3>1, PageThenRest
    <3>3. sync' = "begin" /\ Codes(all)' = Codes(all')
      BY <2>4 DEF Codes
    <3> QED BY <1>4, <1>5, <3>2, <3>3 DEF ListInv, PagesFollow
  <2>5. CASE ~LastPage(got)
    <3>1. page' = page + 1 /\ sync' = "fetching"
      BY <2>5
    <3>2. page' - 1 = page
      BY <1>1, <3>1
    <3>3. Upto(page - 1)' = Upto(page)
      BY <3>2 DEF Upto, Total
    <3>4. From(ranking, page)' = From(ranking, page + 1) /\ Codes(all)' = Codes(all')
      BY <3>1 DEF From, Total, Codes
    <3> QED BY <1>4, <1>5, <2>2, <2>3, <3>1, <3>3, <3>4 DEF ListInv, PagesFollow
  <2> QED BY <2>4, <2>5
<1> QED BY <1>6, <1>7

LEMMA FetchKeeps ==
  ASSUME ListInv, FetchPage
  PROVE  ListInv'
<1>1. PICK got \in {PageOf(page), << >>} :
        \/ all \o got = << >> /\ NextHost
        \/ /\ all \o got # << >>
           /\ all' = all \o got
           /\ withheld' = IF got = << >> THEN withheld \cup From(ranking, page) ELSE withheld
           /\ IF LastPage(got) THEN sync' = "begin" /\ UNCHANGED page
                               ELSE page' = page + 1 /\ UNCHANGED sync
           /\ UNCHANGED <<attempt, host>>
  BY DEF FetchPage
<1>2. sync = "fetching" /\ UNCHANGED <<ranking, moves, hasTotal, rows, table, count>>
  BY DEF FetchPage
<1>3. CASE NextHost
  BY <1>2, <1>3, HostGivenUp
<1>4. CASE ~NextHost
  BY <1>1, <1>2, <1>4, PageKeeps
<1> QED BY <1>3, <1>4

LEMMA ListKept == ListInv /\ [ListNext]_listVars => ListInv'
<1> SUFFICES ASSUME ListInv, [ListNext]_listVars PROVE ListInv'
  OBVIOUS
<1>0. ListTyped /\ PagesFollow
  BY DEF ListInv
<1>1. CASE FetchPage
  BY <1>1, FetchKeeps
<1>2. CASE PageFails
  BY <1>2, HostGivenUp DEF PageFails
<1>3. CASE Begin
  BY <1>0, <1>3 DEF Begin, reading, ListInv, ListTyped, PagesFollow, Rankings, Codes, Total
<1>4. CASE InsertRow
  <2>1. Codes(all) \subseteq Listed
    BY <1>0, CodesListed DEF ListTyped
  <2>2. table' \subseteq Listed
    BY <1>0, <1>4, <2>1 DEF InsertRow, ListTyped
  <2> QED BY <1>0, <1>4, <2>2
          DEF InsertRow, reading, ListInv, ListTyped, PagesFollow, Rankings, Codes, Total
<1>5. CASE Commit
  <2>1. rows' \subseteq Listed /\ count' \in Nat
    BY <1>0, <1>5, LenProperties DEF Commit, ListTyped
  <2>2. Listed \ rows' \subseteq withheld'
    BY <1>0, <1>5 DEF Commit, reading, PagesFollow
  <2>3. sync' = "over"
    BY <1>5 DEF Commit
  <2>4. ListTyped'
    BY <1>0, <1>5, <2>1, <2>3 DEF Commit, reading, ListTyped, Rankings, Codes, Total
  <2> QED BY <2>2, <2>3, <2>4 DEF ListInv, PagesFollow
<1>6. CASE Rollback
  <2>1. all' = << >> /\ page' = 1 /\ withheld' = {} /\ table' \subseteq Listed
        /\ sync' \in {"fetching", "over"} /\ attempt' \in 1..Attempts /\ host' \in Hosts
    BY <1>0, <1>6, ListNumbers DEF Rollback, Retry, ListTyped, Hosts
  <2>2. rows = {} /\ count' \in Nat /\ UNCHANGED <<ranking, moves, hasTotal, rows>>
    BY <1>0, <1>6 DEF Rollback, ListTyped, PagesFollow
  <2> QED BY <2>1, <2>2, FreshStart
<1>7. CASE RankingMoves
  <2>1. moves' \in 0..MaxMoves
    BY <1>0, <1>7, ListNumbers DEF RankingMoves, ListTyped
  <2>2. Rankings' = Rankings /\ ranking' \in Rankings
    BY <1>7 DEF RankingMoves, Rankings, Codes, Total
  <2>3. /\ withheld \subseteq withheld' /\ withheld' \subseteq Listed
        /\ sync = "fetching" => withheld \cup From(ranking, page) \subseteq withheld' \cup From(ranking', page)
    <3>1. From(ranking, page) \subseteq Listed
      BY <1>0, FromPages DEF ListTyped
    <3> QED BY <1>0, <1>7, <3>1 DEF RankingMoves, ListTyped
  <2>4. UNCHANGED <<hasTotal, rows, table, count, sync, attempt, host, page, all>>
    BY <1>7 DEF RankingMoves
  <2>5. ListTyped'
    BY <1>0, <2>1, <2>2, <2>3, <2>4 DEF ListTyped
  <2>6. Upto(page - 1)' = Upto(page - 1) /\ Codes(all)' = Codes(all)
        /\ From(ranking, page)' = From(ranking', page)
    BY <2>4 DEF Upto, Codes, From, Total
  <2>7. PagesFollow'
    BY <1>0, <2>3, <2>4, <2>6 DEF PagesFollow
  <2> QED BY <2>5, <2>7 DEF ListInv
<1>8. CASE Restart
  <2>1. Cardinality(rows) \in Nat
    BY <1>0, FS_CardinalityType, FS_Subset, StockListAssumption DEF ListTyped
  <2>2. all' = << >> /\ page' = 1 /\ withheld' = {} /\ table' \subseteq Listed /\ count' \in Nat
        /\ sync' \in {"fetching", "over"} /\ attempt' \in 1..Attempts /\ host' \in Hosts
    BY <1>0, <1>8, <2>1, ListNumbers DEF Restart, ListTyped, Hosts
  <2>3. rows = {} /\ UNCHANGED <<ranking, moves, hasTotal, rows>>
    BY <1>0, <1>8 DEF Restart, PagesFollow
  <2> QED BY <2>2, <2>3, FreshStart
<1>9. CASE UNCHANGED listVars
  <2>1. UNCHANGED <<ranking, moves, hasTotal, rows, table, count, sync, attempt, host, page, all, withheld>>
    BY <1>9 DEF listVars, reading
  <2>2. Rankings' = Rankings /\ Upto(page - 1)' = Upto(page - 1) /\ Codes(all)' = Codes(all)
        /\ From(ranking, page)' = From(ranking, page)
    BY <2>1 DEF Rankings, Codes, Total, Upto, From
  <2>3. ListTyped'
    BY <1>0, <2>1, <2>2 DEF ListTyped
  <2>4. PagesFollow'
    BY <1>0, <2>1, <2>2 DEF PagesFollow
  <2> QED BY <2>3, <2>4 DEF ListInv
<1> QED BY <1>1, <1>2, <1>3, <1>4, <1>5, <1>6, <1>7, <1>8, <1>9 DEF ListNext

(* Every variable of the download and of the table keeps its type.         *)
THEOREM ListTypeCorrect == ListSpec => []ListTypeOK
<1>1. ListInv => ListTypeOK
  BY CodesListed DEF ListInv, ListTyped, ListTypeOK
<1> QED BY <1>1, ListFirst, ListKept, PTL DEF ListSpec

(* For any stocks, page size, failures of hosts, statements and attempts,  *)
(* and deaths of the process: a stock is missing in the table only for a   *)
(* page that came empty or for a move past the reader.                     *)
THEOREM ListWhole == ListSpec => []ListIsWhole
<1>1. ListInv => ListIsWhole
  BY DEF ListInv, PagesFollow, ListIsWhole
<1> QED BY <1>1, ListFirst, ListKept, PTL DEF ListSpec

=============================================================================
