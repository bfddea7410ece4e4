----------------------------- MODULE WhoWasLock -----------------------------
(***************************************************************************)
(* WhoWasList under concurrency: WHOWAS handlers in Find, the goroutine    *)
(* each of them starts in Each to walk the ring, and the handlers that     *)
(* Append (QUIT, KILL, timeouts, NICK), all on one sync.RWMutex.  The ring *)
(* itself is module WhoWas.                                                *)
(*                                                                         *)
(* The walker sends each entry on an unbuffered channel and takes the read *)
(* lock again in every call of prev.                                       *)
(***************************************************************************)
EXTENDS WhoWas

CONSTANTS Finder,      \* goroutines that run Find
          Appender,    \* goroutines that run Append
          None,        \* no goroutine
          Nickname,    \* what WHOWAS may ask for
          Limit        \* the counts WHOWAS may give

ASSUME WhoWasLockAssumption ==
  /\ None \notin Finder \cup Appender
  /\ Finder \cap Appender = {}
  /\ Limit \subseteq Nat

VARIABLES
  fpc,        \* where each Find stands
  query,      \* nickname and limit of each Find
  results,    \* results of each Find
  wpc,        \* where the walker of each Find stands
  at, stop,   \* the walker's own start and end
  apc,        \* where each Append stands
  fHolds, wHolds,   \* read locks held by each Find and each walker
  announced   \* the Append whose Lock keeps new readers out

locks == <<fHolds, wHolds, announced>>
finds == <<fpc, query, results>>
walks == <<wpc, at, stop>>
lockVars == <<ringVars, finds, walks, apc, locks>>

-----------------------------------------------------------------------------
(* sync.RWMutex: a Lock that has announced itself makes later RLocks wait, *)
(* also those of goroutines that hold the lock already.  (Go also lets the *)
(* waiting readers in before the next writer; here the order is open.)     *)
Free == announced = None

NoReaders == (\A f \in Finder : fHolds[f] = 0) /\ (\A f \in Finder : wHolds[f] = 0)

(* The walker's RLock at program point from, which ends at point to.       *)
WalkerRLock(f, from, to) ==
  /\ wpc[f] = from
  /\ Free
  /\ wHolds' = [wHolds EXCEPT ![f] = @ + 1]
  /\ wpc' = [wpc EXCEPT ![f] = to]
  /\ UNCHANGED <<fHolds, announced, ringVars, finds, at, stop, apc>>

(* prev ends: its own read lock is given back.                             *)
PrevReturns(f, from, to) ==
  /\ wpc[f] = from
  /\ wHolds' = [wHolds EXCEPT ![f] = @ - 1]
  /\ wpc' = [wpc EXCEPT ![f] = to]
  /\ at' = IF from = "inPrevStart" THEN [at EXCEPT ![f] = prev(@)]
           ELSE IF from = "inPrevEnd" THEN [at EXCEPT ![f] = prev(end)] ELSE at
  /\ stop' = IF from = "inPrevBegin" THEN [stop EXCEPT ![f] = prev(start)] ELSE stop
  /\ UNCHANGED <<fHolds, announced, ringVars, finds, apc>>

-----------------------------------------------------------------------------
LockInit ==
  /\ Init
  /\ fpc = [f \in Finder |-> "start"]
  /\ query = [f \in Finder |-> None]
  /\ results = [f \in Finder |-> <<>>]
  /\ wpc = [f \in Finder |-> "none"]
  /\ at = [f \in Finder |-> 0]
  /\ stop = [f \in Finder |-> 0]
  /\ apc = [a \in Appender |-> "start"]
  /\ fHolds = [f \in Finder |-> 0]
  /\ wHolds = [f \in Finder |-> 0]
  /\ announced = None

(* Find: RLock, then Each starts the walker and the range begins.          *)
FindBegins(f, nickname, limit) ==
  /\ fpc[f] = "start"
  /\ Free
  /\ query' = [query EXCEPT ![f] = [nickname |-> nickname, limit |-> limit]]
  /\ fHolds' = [fHolds EXCEPT ![f] = 1]
  /\ fpc' = [fpc EXCEPT ![f] = "range"]
  /\ wpc' = [wpc EXCEPT ![f] = "rlock"]
  /\ UNCHANGED <<wHolds, announced, ringVars, results, at, stop, apc>>

(* The walker has the lock and looks at start and end.                     *)
WalkerBegins(f) ==
  /\ wpc[f] = "look"
  /\ wpc' = [wpc EXCEPT ![f] = IF start = end THEN "close" ELSE "prevEnd"]
  /\ UNCHANGED <<ringVars, locks, finds, at, stop, apc>>

(* for start != end                                                        *)
WalkerLoops(f) ==
  /\ wpc[f] = "loop"
  /\ wpc' = [wpc EXCEPT ![f] = IF at[f] = stop[f] THEN "close" ELSE "send"]
  /\ UNCHANGED <<ringVars, locks, finds, at, stop, apc>>

(* Mutant of Hand: Find looks at the limit before it takes the match.      *)
HandLate(f) ==
  LET e == buffer[at[f]]
  IN /\ wpc[f] = "send" /\ fpc[f] = "range"
     /\ wpc' = [wpc EXCEPT ![f] = "prevStart"]
     /\ \/ NickOf[e] # query[f].nickname /\ UNCHANGED <<results, fpc>>
        \/ /\ NickOf[e] = query[f].nickname
           /\ results' = [results EXCEPT ![f] = Append(@, e)]
           /\ fpc' = [fpc EXCEPT ![f] = IF Len(results[f]) >= query[f].limit
                                        THEN "return" ELSE "range"]
     /\ UNCHANGED <<ringVars, locks, query, at, stop, apc>>

(* The walker sends an entry that Find receives; Find breaks when it has   *)
(* as many matches as asked for.                                           *)
Hand(f) ==
  LET e == buffer[at[f]]
      more == Append(results[f], e)
  IN /\ wpc[f] = "send" /\ fpc[f] = "range"
     /\ wpc' = [wpc EXCEPT ![f] = "prevStart"]
     /\ \/ NickOf[e] # query[f].nickname /\ UNCHANGED <<results, fpc>>
        \/ /\ NickOf[e] = query[f].nickname
           /\ results' = [results EXCEPT ![f] = more]
           /\ fpc' = [fpc EXCEPT ![f] = IF Len(more) >= query[f].limit
                                        THEN "return" ELSE "range"]
     /\ UNCHANGED <<ringVars, locks, query, at, stop, apc>>

(* close(ch), then the walker's deferred RUnlock.                          *)
WalkerCloses(f) ==
  /\ wpc[f] = "close"
  /\ wpc' = [wpc EXCEPT ![f] = "runlock"]
  /\ UNCHANGED <<ringVars, locks, finds, at, stop, apc>>

WalkerEnds(f) ==
  /\ wpc[f] = "runlock"
  /\ wpc' = [wpc EXCEPT ![f] = "done"]
  /\ wHolds' = [wHolds EXCEPT ![f] = @ - 1]
  /\ UNCHANGED <<fHolds, announced, ringVars, finds, at, stop, apc>>

(* Mutant of RangeEnds: Each does not close the channel.                   *)
RangeNeverEnds(f) == FALSE

RangeEnds(f) ==
  /\ fpc[f] = "range"
  /\ wpc[f] \in {"runlock", "done"}
  /\ fpc' = [fpc EXCEPT ![f] = "return"]
  /\ UNCHANGED <<ringVars, locks, query, results, walks, apc>>

FindReturns(f) ==
  /\ fpc[f] = "return"
  /\ fpc' = [fpc EXCEPT ![f] = "done"]
  /\ fHolds' = [fHolds EXCEPT ![f] = 0]
  /\ UNCHANGED <<wHolds, announced, ringVars, query, results, walks, apc>>

Walker(f) ==
  \/ WalkerRLock(f, "rlock", "look")
  \/ WalkerBegins(f)
  \/ WalkerRLock(f, "prevEnd", "inPrevEnd")
  \/ PrevReturns(f, "inPrevEnd", "prevBegin")
  \/ WalkerRLock(f, "prevBegin", "inPrevBegin")
  \/ PrevReturns(f, "inPrevBegin", "loop")
  \/ WalkerLoops(f)
  \/ WalkerRLock(f, "prevStart", "inPrevStart")
  \/ PrevReturns(f, "inPrevStart", "loop")
  \/ WalkerCloses(f)
  \/ WalkerEnds(f)

FindGoesOn(f) == Hand(f) \/ RangeEnds(f) \/ FindReturns(f)

(* Append: Lock announces itself, waits for the readers, writes, unlocks.  *)
Announce(a) ==
  /\ apc[a] = "start"
  /\ Free
  /\ announced' = a
  /\ apc' = [apc EXCEPT ![a] = "lock"]
  /\ UNCHANGED <<fHolds, wHolds, ringVars, finds, walks>>

(* Mutant of LockedAppend: RLock in the place of Lock.                     *)
RLockedAppend(a, e) ==
  /\ apc[a] = "lock"
  /\ AppendEntry(e)
  /\ announced' = None
  /\ apc' = [apc EXCEPT ![a] = "start"]
  /\ UNCHANGED <<fHolds, wHolds, finds, walks>>

LockedAppend(a, e) ==
  /\ apc[a] = "lock"
  /\ NoReaders
  /\ AppendEntry(e)
  /\ announced' = None
  /\ apc' = [apc EXCEPT ![a] = "start"]
  /\ UNCHANGED <<fHolds, wHolds, finds, walks>>

LockNext ==
  \/ \E f \in Finder :
       \/ \E nickname \in Nickname, limit \in Limit : FindBegins(f, nickname, limit)
       \/ FindGoesOn(f)
       \/ Walker(f)
  \/ \E a \in Appender : Announce(a) \/ \E e \in Entry : LockedAppend(a, e)

(* The Go scheduler runs every goroutine that can run.  Whether clients    *)
(* send WHOWAS, or do what makes an entry, is up to them.                  *)
Fairness ==
  /\ \A f \in Finder : WF_lockVars(FindGoesOn(f)) /\ WF_lockVars(Walker(f))
  /\ \A a \in Appender : WF_lockVars(\E e \in Entry : LockedAppend(a, e))

LockSpec == LockInit /\ [][LockNext]_lockVars

FairSpec == LockSpec /\ Fairness

-----------------------------------------------------------------------------
(* What WHOWAS answers is the search of the ring as it stands when Find    *)
(* returns: the goroutine that walked it, the Appends that came in between *)
(* and the early end at the limit made no difference.                      *)
FindAnswers ==
  \A f \in Finder :
    fpc[f] = "return" => results[f] = Find(query[f].nickname, query[f].limit)

(* The ring does not move under a walker, also when the Find that started  *)
(* it has returned its own read lock: the end the walker compares with is  *)
(* the slot before start as long as it walks.                              *)
WalkerOnRing ==
  \A f \in Finder :
    wpc[f] \in {"loop", "send", "prevStart", "inPrevStart"} => stop[f] = prev(start)

(* WHOWAS by itself never gets stuck half way: a Find that has begun can   *)
(* go on, or its walker can, unless an Append waits for the lock.          *)
FindBlocksOnWriterOnly ==
  \A f \in Finder :
    fpc[f] \in {"range", "return"} /\ Free => ENABLED (FindGoesOn(f) \/ Walker(f))

(* Each, "Iterate the buffer in reverse": a walk that starts comes to its  *)
(* end.                                                                    *)
EachEnds == \A f \in Finder : wpc[f] = "rlock" ~> wpc[f] = "done"
=============================================================================
