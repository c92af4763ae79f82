----------------------------- MODULE StockList ------------------------------
(***************************************************************************)
(* The list of all stocks: its paged download from two hosts               *)
(* (internal/stock/db/sync.go), the SQLite table that keeps it             *)
(* (stock/db/sqlite.go), and the three attempts at the first start         *)
(* (internal/server/fx.go, ProvideStockDB).                                *)
(*                                                                         *)
(* Actors: the goroutine that synchronises, the exchange, whose order of   *)
(* the stocks (by change of price) moves while the pages are read, and a   *)
(* crash of the process.                                                   *)
(*                                                                         *)
(* Abstractions: a stock is a member of Listed; B shares, which            *)
(* parseStockPage skips, are left out.  Search, GetByCode and List read    *)
(* the rows under the read lock: to them Commit is one step.               *)
(***************************************************************************)
EXTENDS Integers, Sequences, FiniteSets

CONSTANTS
  Listed,      \* the stocks of the exchange
  PageSize,    \* clistPageSize
  MaxPages,    \* clistMaxPages
  Attempts,    \* tries of the first synchronisation
  MaxMoves     \* bound: changes of the exchange's order

ASSUME StockListAssumption ==
  /\ IsFiniteSet(Listed) /\ PageSize \in Nat \ {0}
  /\ MaxPages \in Nat /\ MaxPages * PageSize > Cardinality(Listed)
  /\ Attempts \in Nat \ {0} /\ MaxMoves \in Nat

Hosts == 1..2    \* clistHosts: push2, then push2delay
Total == Cardinality(Listed)
Codes(s) == {s[i] : i \in DOMAIN s}

VARIABLES
  ranking,     \* the exchange's order of the stocks
  moves,       \* bound: how often it changed
  hasTotal,    \* the host tells how many stocks there are
  rows,        \* the committed rows of the table
  table,       \* the rows as the open transaction sees them
  count,       \* s.count
  sync,        \* where the synchronisation is
  attempt,     \* its attempt
  host,        \* the host that it reads
  page,        \* the page that it asks for next
  all,         \* the stocks that it has read from this host
  withheld     \* history: stocks that the answers of this host passed over

reading  == <<attempt, host, page, all, withheld>>
listVars == <<ranking, moves, hasTotal, rows, table, count, sync, reading>>

Rankings == {s \in [1..Total -> Listed] : Codes(s) = Listed}

(* ProvideStockDB: only an empty table is synchronised.                    *)
ListInit ==
  /\ ranking \in Rankings /\ moves = 0 /\ hasTotal \in BOOLEAN
  /\ rows \in {{}, Listed} /\ table = rows /\ count = Cardinality(rows)
  /\ sync = IF rows = {} THEN "fetching" ELSE "over"
  /\ attempt = 1 /\ host = 1 /\ page = 1 /\ all = << >> /\ withheld = {}

-----------------------------------------------------------------------------
(* What fetchStockPage gets for page n, and the stocks that an order has   *)
(* from page n on.                                                         *)
PageOf(n) == SubSeq(ranking, (n - 1) * PageSize + 1,
                    IF n * PageSize < Total THEN n * PageSize ELSE Total)

From(order, n) == {order[i] : i \in (n - 1) * PageSize + 1 .. Total}

(* The loop of fetchAllStocksFrom ends at an empty page, when it has as    *)
(* many stocks as the host says there are, or at its last page.            *)
LastPage(got) ==
  \/ got = << >> \/ page = MaxPages
  \/ hasTotal /\ Len(all \o got) >= Total

(* The next attempt of the first synchronisation, after its sleep; nothing *)
(* is tried any more after the last.                                       *)
Retry ==
  /\ host' = 1 /\ page' = 1 /\ all' = << >> /\ withheld' = {}
  /\ IF attempt < Attempts THEN attempt' = attempt + 1 /\ sync' = "fetching"
                           ELSE sync' = "over" /\ UNCHANGED attempt

(* The host is given up; the next one starts at page one.                  *)
NextHost ==
  \/ /\ host + 1 \in Hosts
     /\ host' = host + 1 /\ page' = 1 /\ all' = << >> /\ withheld' = {}
     /\ UNCHANGED <<sync, attempt>>
  \/ host + 1 \notin Hosts /\ Retry

(* A page without data is no error, wherever it comes; only a list without *)
(* any stock is one.                                                       *)
FetchPage ==
  /\ sync = "fetching"
  /\ \E got \in {PageOf(page), << >>} :
       \/ all \o got = << >> /\ NextHost
       \/ /\ all \o got # << >>
          /\ all' = all \o got
          /\ withheld' = IF got = << >> THEN withheld \cup From(ranking, page) ELSE withheld
          /\ IF LastPage(got) THEN sync' = "begin" /\ UNCHANGED page
                              ELSE page' = page + 1 /\ UNCHANGED sync
          /\ UNCHANGED <<attempt, host>>
  /\ UNCHANGED <<ranking, moves, hasTotal, rows, table, count>>

F_PageFails ==
  /\ sync = "fetching"
  /\ \/ all # << >> /\ sync' = "begin" /\ UNCHANGED reading
     \/ all = << >> /\ NextHost
  /\ UNCHANGED <<ranking, moves, hasTotal, rows, table, count>>

(* An error on any page ends the host.                                     *)
PageFails ==
  /\ sync = "fetching"
  /\ NextHost
  /\ UNCHANGED <<ranking, moves, hasTotal, rows, table, count>>

-----------------------------------------------------------------------------
(* Refresh: under the write lock and in one transaction, DELETE ...        *)
Begin ==
  /\ sync = "begin" /\ all # << >>
  /\ sync' = "inserting" /\ table' = {}
  /\ UNCHANGED <<ranking, moves, hasTotal, rows, count, reading>>

(* ... one INSERT OR REPLACE for each stock ...                            *)
InsertRow ==
  /\ sync = "inserting"
  /\ \E s \in Codes(all) \ table : table' = table \cup {s}
  /\ UNCHANGED <<ranking, moves, hasTotal, rows, count, sync, reading>>

(* ... and the commit, then the count.                                     *)
Commit ==
  /\ sync = "inserting" /\ Codes(all) \subseteq table
  /\ rows' = table /\ count' = Len(all)
  /\ sync' = "over"
  /\ UNCHANGED <<ranking, moves, hasTotal, table, reading>>

(* Any statement may fail: tx.Rollback.                                    *)
Rollback ==
  /\ sync = "inserting"
  /\ table' = rows
  /\ Retry
  /\ UNCHANGED <<ranking, moves, hasTotal, rows, count>>

-----------------------------------------------------------------------------
(* A stock that moves to a page that was read already is not seen.         *)
RankingMoves ==
  /\ moves < MaxMoves
  /\ moves' = moves + 1 /\ ranking' \in Rankings
  /\ withheld' = IF sync # "fetching" THEN withheld
             ELSE withheld \cup (From(ranking, page) \ From(ranking', page))
  /\ UNCHANGED <<hasTotal, rows, table, count, sync, attempt, host, page, all>>

(* A crash and NewSQLite: SQLite drops the open transaction, loadCount     *)
(* counts the rows.                                                        *)
Restart ==
  /\ sync # "over" \/ rows = {}
  /\ table' = rows /\ count' = Cardinality(rows)
  /\ sync' = IF rows = {} THEN "fetching" ELSE "over"
  /\ attempt' = 1 /\ host' = 1 /\ page' = 1 /\ all' = << >> /\ withheld' = {}
  /\ UNCHANGED <<ranking, moves, hasTotal, rows>>

ListNext == \/ FetchPage \/ PageFails \/ Begin \/ InsertRow \/ Commit \/ Rollback
            \/ RankingMoves \/ Restart

ListSpec == ListInit /\ [][ListNext]_listVars

-----------------------------------------------------------------------------
(* Every variable has its type. *)
ListTypeOK ==
  /\ ranking \in Rankings /\ moves \in 0..MaxMoves /\ hasTotal \in BOOLEAN
  /\ rows \subseteq Listed /\ table \subseteq Listed /\ count \in Nat
  /\ sync \in {"fetching", "begin", "inserting", "over"}
  /\ attempt \in 1..Attempts /\ host \in Hosts /\ page \in 1..MaxPages
  /\ Codes(all) \subseteq Listed /\ withheld \subseteq Listed

(* What is missing in the table that the screening tools see was withheld  *)
(* by the exchange: it stood at or behind a page that came empty, or moved *)
(* past the reader.  No stock is missing for a failure: whichever page,    *)
(* host, statement or attempt failed and wherever the process died.        *)
ListIsWhole == rows = {} \/ Listed \ rows \subseteq withheld

(* No data is missing silently (the comment in fetchAllStocksFrom).  It is,*)
(* when a page in the middle comes empty or the order of the stocks moves. *)
(* No run checks it.                                                       *)
ListIsComplete == rows \in {{}, Listed}

=============================================================================
