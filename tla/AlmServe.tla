------------------------------ MODULE AlmServe ------------------------------
(***************************************************************************)
(* packages/sugar/src: `aero alm init` and `aero serve`                    *)
(* (cli/alm-commands.ts, alm/config.ts), the passes of the daemon over its *)
(* positions (alm/engine.ts) and its notifications (alm/notify.ts).  A     *)
(* pass that moves a position is AlmCycle; here it succeeds or fails.      *)
(***************************************************************************)
EXTENDS Integers, Sequences, FiniteSets, SequencesExt

CONSTANTS
  AlmPools,              \* pools in which the wallet may have a position
  ServePlaces,                \* where the price is, where a position is centred
  Troubles, NoTrouble,   \* messages of errors
  NoPlace,               \* no position
  SnapshotTtl,           \* 15 min
  NotifyTime, NotifyGrace,   \* 10 s and 1 s
  MaxEarned, MaxPasses, MaxServeTime, MaxWorldMoves, MaxInits   \* bounds

ASSUME AlmServeAssumption ==
  /\ NoTrouble \notin Troubles /\ NoPlace \notin ServePlaces /\ AlmPools # {} /\ IsFiniteSet(AlmPools)
  /\ {SnapshotTtl, NotifyTime, NotifyGrace, MaxEarned, MaxPasses, MaxServeTime, MaxWorldMoves, MaxInits} \subseteq Nat

VARIABLES
  serveTime,   \* the time
  serveFile,     \* alm.json: its positions, in order
  inits,       \* init commands begun, and the one under way
  daemon,      \* the serve process: where it is in its pass
  watched,     \* PositionRuntime of each position
  spots,       \* price of each pool
  nfts,        \* the wallet's positions: place, emissions earned
  child,       \* the notifier's process
  said,        \* history, per position: what was wanted or failed, how often it was told
  worldMoves

serveVars == <<serveTime, serveFile, inits, daemon, watched, spots, nfts, child, said, worldMoves>>

NoInit == [begun |-> 0, at |-> "none"]
Off == [at |-> "off", executing |-> FALSE, pos |-> 0, tick |-> NoPlace, after |-> "none", passes |-> 0]
NoChild == [up |-> FALSE, age |-> 0, stubborn |-> FALSE]
NoSnapshot == [place |-> NoPlace, earned |-> 0, at |-> 0]
FreshRuntime == [snapshot |-> NoSnapshot, lastError |-> NoTrouble, lastIntent |-> <<"none">>]
Nothing == [n |-> 0, what |-> <<"none">>]
Unsaid == [error |-> Nothing, move |-> Nothing, compound |-> Nothing]
Entry(pool, sound) == [pool |-> pool, sound |-> sound]

ServeTypeOK ==
  /\ serveTime \in 0..MaxServeTime /\ worldMoves \in 0..MaxWorldMoves /\ inits.begun \in 0..MaxInits
  /\ serveFile \in BoundedSeq([pool : AlmPools, sound : BOOLEAN], Cardinality(AlmPools) + 1)
  /\ daemon.at \in {"off", "resting", "reading", "deciding", "noting"}
  /\ daemon.pos \in 0..Len(watched) /\ daemon.passes \in 0..MaxPasses
  /\ Len(said) = Len(watched) /\ \A p \in DOMAIN watched : watched[p].rt.lastError \in Troubles \cup {NoTrouble}
  /\ \A pool \in AlmPools : nfts[pool].place \in ServePlaces \cup {NoPlace}

ServeInit ==
  /\ serveTime = 0 /\ serveFile = <<>> /\ inits = NoInit /\ daemon = Off /\ watched = <<>>
  /\ \E c \in ServePlaces : spots = [pool \in AlmPools |-> c]
  /\ nfts \in [AlmPools -> [place : ServePlaces \cup {NoPlace}, earned : {0}]]
  /\ child = NoChild /\ said = <<>> /\ worldMoves = 0

(***************************************************************************)
(* The configuration                                                       *)
(***************************************************************************)

(* parseAlmConfig: some position, no pool twice, values in their ranges.   *)
SharesNoPool(entries) == \A i, j \in DOMAIN entries : entries[i].pool = entries[j].pool => i = j
Accepts(entries) == entries # <<>> /\ SharesNoPool(entries) /\ \A i \in DOMAIN entries : entries[i].sound

(* alm init looks for the file, asks the chain for the positions, and      *)
(* writes one entry for each; a wallet may have two NFTs of a pool.        *)
InitBegins(force) ==
  /\ inits.at = "none" /\ inits.begun < MaxInits
  /\ (serveFile = <<>> \/ force)
  /\ inits' = [begun |-> inits.begun + 1, at |-> "asking"]
  /\ UNCHANGED <<serveTime, serveFile, daemon, watched, spots, nfts, child, said, worldMoves>>
Found == SetToSeq({pool \in AlmPools : nfts[pool].place # NoPlace})
MayWrite(entries) == SharesNoPool(entries)
InitEnds == \E again \in BOOLEAN :
  LET found == IF again /\ Found # <<>> THEN Append(Found, Found[1]) ELSE Found
      entries == [i \in DOMAIN found |-> Entry(found[i], TRUE)]
  IN
  /\ inits.at = "asking"
  /\ inits' = IF MayWrite(entries) /\ entries # <<>>
              THEN [inits EXCEPT !.at = "wrote"] ELSE [inits EXCEPT !.at = "none"]
  /\ serveFile' = IF MayWrite(entries) /\ entries # <<>> THEN entries ELSE serveFile
  /\ UNCHANGED <<serveTime, daemon, watched, spots, nfts, child, said, worldMoves>>
EditFile(pool, sound) ==
  /\ Len(serveFile) <= Cardinality(AlmPools) /\ inits.begun < MaxInits
  /\ serveFile' = Append(serveFile, Entry(pool, sound))
  /\ inits' = [begun |-> inits.begun + 1, at |-> "none"]
  /\ UNCHANGED <<serveTime, daemon, watched, spots, nfts, child, said, worldMoves>>

(* serve loads the file once; a file it does not accept stops it.          *)
Serve(executing) ==
  /\ daemon.at = "off" /\ daemon.passes = 0 /\ Accepts(serveFile)
  /\ daemon' = [Off EXCEPT !.at = "resting", !.executing = executing]
  /\ watched' = [i \in DOMAIN serveFile |-> [pool |-> serveFile[i].pool, rt |-> FreshRuntime]]
  /\ said' = [i \in DOMAIN serveFile |-> Unsaid]
  /\ inits' = [inits EXCEPT !.at = "none"]
  /\ UNCHANGED <<serveTime, serveFile, spots, nfts, child, worldMoves>>
Interrupt ==
  /\ daemon.at # "off"
  /\ daemon' = [Off EXCEPT !.passes = daemon.passes] /\ watched' = <<>> /\ said' = <<>> /\ child' = NoChild
  /\ UNCHANGED <<serveTime, serveFile, inits, spots, nfts, worldMoves>>

(***************************************************************************)
(* A pass                                                                  *)
(***************************************************************************)
P == daemon.pos
Rt == watched[P].rt
PoolNow == watched[P].pool
Sets(rt) == watched' = [watched EXCEPT ![P].rt = rt]

(* runPass: an executing daemon may find the lock taken, another chain or  *)
(* a cycle to recover, and then the pass is over.                          *)
PassBegins ==
  /\ daemon.at = "resting" /\ daemon.passes < MaxPasses
  /\ \/ daemon' = [daemon EXCEPT !.at = "reading", !.pos = 1, !.passes = @ + 1]
     \/ daemon.executing /\ daemon' = [daemon EXCEPT !.passes = @ + 1]
  /\ UNCHANGED <<serveTime, serveFile, inits, watched, spots, nfts, child, said, worldMoves>>

NextPosition == IF P < Len(watched)
                THEN [daemon EXCEPT !.at = "reading", !.pos = @ + 1, !.after = "none"]
                ELSE [daemon EXCEPT !.at = "resting", !.pos = 0, !.after = "none"]
Tells(after) == /\ daemon' = [daemon EXCEPT !.at = "noting", !.after = after]
                /\ \E stubborn \in BOOLEAN : child' = [up |-> TRUE, age |-> 0, stubborn |-> stubborn]

(* History: the same thing again without a break is one thing.             *)
Again(was, what) == IF was.what = what THEN was ELSE [n |-> 0, what |-> what]
Told(was) == [was EXCEPT !.n = @ + 1]

(* A position's pass went well: its last error is forgotten.               *)
KeepsError(rt) == rt
Well(rt) == [rt EXCEPT !.lastError = NoTrouble]

(* ... and the catch: an error is told unless it was the last one; what    *)
(* was known of the position is dropped; executing, the pass is over.      *)
AfterFailure == IF daemon.executing THEN [daemon EXCEPT !.at = "resting", !.pos = 0, !.after = "none"]
              ELSE NextPosition
FailsBy(m) ==
  LET heard == Again(said[P].error, <<m>>) IN
  IF Rt.lastError # m
  THEN /\ Sets([Rt EXCEPT !.lastError = m])
       /\ said' = [said EXCEPT ![P].error = Told(heard)]
       /\ Tells("error")
  ELSE /\ Sets([Rt EXCEPT !.snapshot = NoSnapshot])
       /\ said' = [said EXCEPT ![P].error = heard]
       /\ daemon' = AfterFailure /\ UNCHANGED child

ReadSpot ==
  /\ daemon.at = "reading"
  /\ \/ /\ daemon' = [daemon EXCEPT !.at = "deciding", !.tick = spots[PoolNow]]
        /\ UNCHANGED <<watched, said, child>>
     \/ \E m \in Troubles : FailsBy(m)
  /\ UNCHANGED <<serveTime, serveFile, inits, spots, nfts, worldMoves>>

(* ensureSnapshot: a dry run takes what it read up to 15 minutes ago.      *)
Stands(snapshot) == ~daemon.executing /\ snapshot # NoSnapshot /\ serveTime - snapshot.at < SnapshotTtl
Seen == IF Stands(Rt.snapshot) THEN Rt.snapshot
        ELSE IF nfts[PoolNow].place = NoPlace THEN NoSnapshot
        ELSE [place |-> nfts[PoolNow].place, earned |-> nfts[PoolNow].earned, at |-> serveTime]

GoesWell(rt, heard) == Sets(Well(rt)) /\ said' = [said EXCEPT ![P] = heard] /\ daemon' = NextPosition /\ UNCHANGED child
Quiet == [said[P] EXCEPT !.error = Nothing]

(* No position, or a gate (cap, cooldown, average price) that says no.     *)
Waits ==
  LET rt == [Rt EXCEPT !.snapshot = Seen]
  IN /\ (Seen = NoSnapshot \/ Seen.place # daemon.tick)
     /\ GoesWell(rt, Quiet)
     /\ UNCHANGED nfts

(* In range: the intent is forgotten, then emissions may be due.           *)
Holds(due) ==
  LET rt == [Rt EXCEPT !.snapshot = Seen, !.lastIntent = <<"none">>]
      intent == <<"compound", Seen.earned>>
      heard == [Quiet EXCEPT !.move = Nothing, !.compound = Again(@, intent)]
  IN
  /\ Seen # NoSnapshot /\ Seen.place = daemon.tick
  /\ IF ~due \/ Seen.earned = 0
     THEN GoesWell(rt, [Quiet EXCEPT !.move = Nothing, !.compound = Nothing]) /\ UNCHANGED nfts
     ELSE IF daemon.executing
     THEN /\ Sets([rt EXCEPT !.snapshot = NoSnapshot])
          /\ nfts' = [nfts EXCEPT ![PoolNow].earned = 0]
          /\ said' = [said EXCEPT ![P] = [Quiet EXCEPT !.move = Nothing, !.compound = Nothing]]
          /\ Tells("done")
     ELSE IF rt.lastIntent = intent
     THEN GoesWell(rt, heard) /\ UNCHANGED nfts
     ELSE /\ Sets([rt EXCEPT !.lastIntent = intent])
          /\ said' = [said EXCEPT ![P] = [heard EXCEPT !.compound = Told(@)]]
          /\ Tells("done")
          /\ UNCHANGED nfts

(* Out of range: a dry run tells what it would do, once; else it is done.  *)
Known(rt, intent) == rt.lastIntent = intent
Moves ==
  LET rt == [Rt EXCEPT !.snapshot = Seen]
      intent == <<"move", daemon.tick>>
      heard == [Quiet EXCEPT !.move = Again(@, intent), !.compound = Nothing]
  IN
  /\ Seen # NoSnapshot /\ Seen.place # daemon.tick
  /\ IF daemon.executing
     THEN /\ Sets([rt EXCEPT !.snapshot = NoSnapshot])
          /\ nfts' = [nfts EXCEPT ![PoolNow].place = daemon.tick]
          /\ said' = [said EXCEPT ![P] = [Quiet EXCEPT !.move = Nothing]]
          /\ Tells("done")
     ELSE IF Known(rt, intent)
     THEN GoesWell(rt, heard) /\ UNCHANGED nfts
     ELSE /\ Sets([rt EXCEPT !.lastIntent = intent])
          /\ said' = [said EXCEPT ![P] = [heard EXCEPT !.move = Told(@)]]
          /\ Tells("done")
          /\ UNCHANGED nfts

Decides ==
  /\ daemon.at = "deciding"
  /\ \/ Waits
     \/ \E due \in BOOLEAN : Holds(due)
     \/ Moves
     \/ \E m \in Troubles : FailsBy(m) /\ UNCHANGED nfts
  /\ UNCHANGED <<serveTime, serveFile, inits, spots, worldMoves>>

(***************************************************************************)
(* runNotification: the child is told to end, then made to                 *)
(***************************************************************************)
Killed(age) == age >= NotifyTime + NotifyGrace
MustEnd(c) == Killed(c.age) \/ (c.age >= NotifyTime /\ ~c.stubborn)
ChildEnds ==
  /\ daemon.at = "noting" /\ child.up
  /\ child' = NoChild
  /\ IF daemon.after = "error"
     THEN Sets([Rt EXCEPT !.snapshot = NoSnapshot]) /\ daemon' = AfterFailure
     ELSE Sets(Well(Rt)) /\ daemon' = NextPosition
  /\ UNCHANGED <<serveTime, serveFile, inits, spots, nfts, said, worldMoves>>

ServeTick ==
  /\ serveTime < MaxServeTime /\ serveTime' = serveTime + 1
  /\ child.up => ~MustEnd(child)
  /\ child' = IF child.up THEN [child EXCEPT !.age = @ + 1] ELSE child
  /\ UNCHANGED <<serveFile, inits, daemon, watched, spots, nfts, said, worldMoves>>

(* Prices move, positions earn, and their owner moves or closes them.      *)
ServeWorld == \E pool \in AlmPools :
  /\ worldMoves < MaxWorldMoves /\ worldMoves' = worldMoves + 1
  /\ \/ \E c \in ServePlaces : spots' = [spots EXCEPT ![pool] = c] /\ UNCHANGED nfts
     \/ \E c \in ServePlaces \cup {NoPlace}, e \in 0..MaxEarned :
          nfts' = [nfts EXCEPT ![pool] = [place |-> c, earned |-> e]] /\ UNCHANGED spots
  /\ UNCHANGED <<serveTime, serveFile, inits, daemon, watched, child, said>>

ServeNext ==
  \/ \E force \in BOOLEAN : InitBegins(force)
  \/ InitEnds
  \/ \E pool \in AlmPools, sound \in BOOLEAN : EditFile(pool, sound)
  \/ \E executing \in BOOLEAN : Serve(executing)
  \/ Interrupt
  \/ PassBegins \/ ReadSpot \/ Decides \/ ChildEnds
  \/ ServeTick \/ ServeWorld

ServeSpec == ServeInit /\ [][ServeNext]_serveVars

(***************************************************************************)
(* Properties                                                              *)
(***************************************************************************)

(* An error is told when it comes up and not again while it lasts, and so  *)
(* is a move a dry run would make, whatever errors, waits and restarts of  *)
(* the price come between (engine.ts:71); a note stalls the daemon no      *)
(* longer than its time and the grace of its process (notify.ts:4); and    *)
(* what init writes, serve accepts.                                        *)
ToldOnce(note) == note # Nothing => note.n = 1
NotesAreTold ==
  /\ \A p \in DOMAIN said : ToldOnce(said[p].error) /\ ToldOnce(said[p].move)
  /\ child.up => child.age <= NotifyTime + NotifyGrace
  /\ inits.at = "wrote" => Accepts(serveFile)
=============================================================================
