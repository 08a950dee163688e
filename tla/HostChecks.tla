----------------------------- MODULE HostChecks -----------------------------
(***************************************************************************)
(* Three checks that ask every host, one question after another, while the *)
(* hosts go on: is there something to restore from (check_backups.py), is  *)
(* there room (check_headroom.py), and who writes the chain                *)
(* (check_concentration.py).  Exit 0 is a pass, 1 a finding and 2 that the *)
(* question could not be put.                                              *)
(***************************************************************************)
EXTENDS Integers, Sequences, FiniteSets

CONSTANTS CHECKED,               \* hosts in the order they are asked
          Networks,
          MAX_AGE,               \* of an archive
          FLOOR, Levels,         \* of memory or disk that is free
          SPAN, WARN_WINDOW,     \* least time between two samples; time ahead
          SAMPLES,               \* samples a host keeps
          Finders, Window, MIN_BLOCKS, FAIL,   \* a share in percent
          MaxMeanwhile, MaxSilences   \* bounds

ASSUME HostAssumption ==
  /\ CHECKED # <<>> /\ CHECKED \in Seq({CHECKED[i] : i \in DOMAIN CHECKED})
  /\ Networks \cap {"first", "run", "end"} = {} /\ IsFiniteSet(Finders)
  /\ MAX_AGE \in Nat /\ SPAN \in Nat /\ FLOOR \in Nat /\ Levels \subseteq Nat
  /\ SAMPLES \in Nat \ {0} /\ MIN_BLOCKS \in Nat \ {0} /\ Window \in Nat \ {0} /\ FAIL \in Nat

VARIABLES hostTime,
          timers,     \* host -> networks whose backup timer is active
          lastBackup, \* <<host, network>> -> "success", "failed" or "never"
          archive,    \* <<host, network>> -> the time of the newest, or none
          samples,    \* host -> [t, avail], as the host keeps them
          blocks,     \* finders of the blocks of the window
          inquiry,    \* the check under way
          learned,    \* what it has been told
          hostExit,   \* how it ended
          steady,     \* history: has nothing changed since the check began?
          meanwhiles, silences

hostVars == <<hostTime, timers, lastBackup, archive, samples, blocks, inquiry, learned,
              hostExit, steady, meanwhiles, silences>>
hostWorld == <<hostTime, timers, lastBackup, archive, blocks, steady, meanwhiles>>

NoCheck == [check |-> "none"]
StillRunning == -1
NoTime == -1
CheckedHosts == {CHECKED[i] : i \in DOMAIN CHECKED}
Instances == CheckedHosts \X Networks

CheckStarts(check) ==
  /\ inquiry = NoCheck /\ hostExit = StillRunning
  /\ inquiry' = [check |-> check, host |-> 1, step |-> "first", left |-> {}]
  /\ steady' = TRUE
  /\ UNCHANGED <<hostTime, timers, lastBackup, archive, blocks, meanwhiles, samples, learned,
                 hostExit, silences>>

Host == CHECKED[inquiry.host]
NextHost == IF inquiry.host = Len(CHECKED) THEN [inquiry EXCEPT !.step = "end"]
            ELSE [inquiry EXCEPT !.host = @ + 1, !.step = "first", !.left = {}]

Fact(about, network, kind) == [about |-> about, host |-> Host, network |-> network, kind |-> kind]
Tells(about, network, kind, next) ==
  /\ learned' = learned \cup {Fact(about, network, kind)} /\ inquiry' = next
  /\ UNCHANGED silences

\* wamssh.run: both tries came to nothing.
Lost(about, network, kind, next) ==
  /\ silences < MaxSilences /\ silences' = silences + 1
  /\ learned' = learned \cup {Fact(about, network, kind)} /\ inquiry' = next
Silent(about, network, next) == Lost(about, network, "warn", next)

-----------------------------------------------------------------------------
\* check: the timers a host has active decide what is examined there.
AskTimers ==
  /\ inquiry.check = "backups" /\ inquiry.step = "first"
  /\ \/ Silent("timers", "all", NextHost)
     \/ /\ timers[Host] = {} /\ Tells("timers", "all", "bad", NextHost)
     \/ /\ timers[Host] # {}
        /\ Tells("timers", "all", "ok", [inquiry EXCEPT !.step = "run", !.left = timers[Host]])
  /\ UNCHANGED <<hostWorld, samples, hostExit>>

\* check_instance: how the last run ended, and then the newest archive.
AskLastRun(n) ==
  /\ inquiry.check = "backups" /\ inquiry.step = "run" /\ n \in inquiry.left
  /\ LET at == [inquiry EXCEPT !.step = n]
     IN  \/ Silent("run", n, at)
         \/ Tells("run", n, CASE lastBackup[<<Host, n>>] = "success" -> "ok"
                              [] lastBackup[<<Host, n>>] = "failed" -> "bad"
                              [] lastBackup[<<Host, n>>] = "never" -> "warn", at)
  /\ UNCHANGED <<hostWorld, samples, hostExit>>

NextNetwork(n) == IF inquiry.left = {n} THEN NextHost
                  ELSE [inquiry EXCEPT !.step = "run", !.left = @ \ {n}]

\* A mutant: what could not be looked for is no archive of its own.
Unfound_Absent == "bad"
Unfound == "warn"

\* An archive may be rotated away between being listed and being read.
AskArchive ==
  /\ inquiry.check = "backups" /\ inquiry.step \in Networks
  /\ LET n == inquiry.step
         at == archive[<<Host, n>>]
     IN  \/ Lost("archive", n, Unfound, NextNetwork(n))
         \/ at = NoTime /\ Tells("archive", n, "bad", NextNetwork(n))
         \/ at # NoTime /\ Tells("archive", n, IF hostTime - at <= MAX_AGE THEN "ok" ELSE "bad",
                               NextNetwork(n))
  /\ UNCHANGED <<hostWorld, samples, hostExit>>

-----------------------------------------------------------------------------
\* The oldest sample that is far enough back, or none.
Oldest(history, now) ==
  LET far == {i \in DOMAIN history : now.t - history[i].t >= SPAN}
  IN  IF far = {} THEN NoTime ELSE CHOOSE i \in far : \A j \in far : i <= j

\* report: under the floor; losing so fast that it will be within the window; or
\* room.  A loss of half a megabyte a day is none.
report(history, now) ==
  LET old == Oldest(history, now)
      gap == now.t - history[old].t
      lost == history[old].avail - now.avail
  IN  IF now.avail < FLOOR THEN "bad"
      ELSE IF old = NoTime THEN "ok"
      ELSE IF 2 * lost <= gap THEN "ok"
      ELSE IF (now.avail - FLOOR) * gap <= WARN_WINDOW * lost THEN "bad" ELSE "ok"

\* ask: the host adds a sample to its own history, of which the last are kept.
AskRoom(level) ==
  /\ inquiry.check = "headroom" /\ inquiry.step = "first"
  /\ LET now == [t |-> hostTime, avail |-> level]
         all == Append(samples[Host], now)
         history == IF Len(all) > SAMPLES THEN Tail(all) ELSE all
     IN  \/ Silent("room", "all", NextHost) /\ UNCHANGED samples
         \/ /\ samples' = [samples EXCEPT ![Host] = history]
            /\ Tells("room", "all", report(history, now), NextHost)
  /\ UNCHANGED <<hostWorld, hostExit>>

-----------------------------------------------------------------------------
\* The share of the largest finder, in percent, of the blocks that could be read.
Of(read, f) == Cardinality({i \in read : blocks[i] = f})
Top(read) == LET f == CHOOSE f \in Finders : \A g \in Finders : Of(read, g) <= Of(read, f)
             IN  (100 * Of(read, f)) \div Cardinality(read)

\* A node with no height, too young a chain and too few blocks read say nothing.
\* Here nobody catches the ssh that is not done in time: the traceback exits 1.
AskFinders ==
  /\ inquiry.check = "concentration" /\ inquiry.step = "first"
  /\ \/ \E kind \in {"warn", "bad"} : Lost("finders", "all", kind, [inquiry EXCEPT !.step = "end"])
     \/ /\ Len(blocks) < MIN_BLOCKS
        /\ Tells("finders", "all", "warn", [inquiry EXCEPT !.step = "end"])
     \/ /\ Len(blocks) >= MIN_BLOCKS
        /\ \E read \in SUBSET DOMAIN blocks :
             /\ read # DOMAIN blocks => silences < MaxSilences
             /\ Tells(IF read = DOMAIN blocks THEN "finders" ELSE "some finders", "all",
                      IF Cardinality(read) < MIN_BLOCKS THEN "warn"
                      ELSE IF Top(read) >= FAIL THEN "bad" ELSE "ok",
                      [inquiry EXCEPT !.step = "end"])
  /\ UNCHANGED <<hostWorld, samples, hostExit>>

\* main of each: a finding, else a question that could not be put, else a pass.
CheckEnds ==
  /\ inquiry.check # "none" /\ inquiry.step = "end"
  /\ hostExit' = IF \E f \in learned : f.kind = "bad" THEN 1
                 ELSE IF \E f \in learned : f.kind = "warn" THEN 2 ELSE 0
  /\ inquiry' = NoCheck
  /\ UNCHANGED <<hostWorld, samples, learned, silences>>

-----------------------------------------------------------------------------
\* Meanwhile: time, backups that are made or fail, timers, rotation and blocks.
Meanwhile(part) ==
  /\ hostExit = StillRunning /\ meanwhiles < MaxMeanwhile /\ meanwhiles' = meanwhiles + 1
  /\ part /\ steady' = FALSE
  /\ UNCHANGED <<samples, inquiry, learned, hostExit, silences>>

HostTick == hostTime' = hostTime + 1 /\ UNCHANGED <<timers, lastBackup, archive, blocks>>
Backup(k) == /\ k[2] \in timers[k[1]]
             /\ \/ /\ archive' = [archive EXCEPT ![k] = hostTime]
                   /\ lastBackup' = [lastBackup EXCEPT ![k] = "success"]
                \/ lastBackup' = [lastBackup EXCEPT ![k] = "failed"] /\ UNCHANGED archive
             /\ UNCHANGED <<hostTime, timers, blocks>>
Rotated(k) == /\ archive' = [archive EXCEPT ![k] = NoTime]
              /\ UNCHANGED <<hostTime, timers, lastBackup, blocks>>
Timer(k) == /\ timers' = [timers EXCEPT ![k[1]] = (@ \ {k[2]}) \cup ({k[2]} \ @)]
            /\ UNCHANGED <<hostTime, lastBackup, archive, blocks>>
Mined(f) == /\ blocks' = Append(IF Len(blocks) = Window THEN Tail(blocks) ELSE blocks, f)
            /\ UNCHANGED <<hostTime, timers, lastBackup, archive>>

HostInit ==
  /\ hostTime = 0 /\ timers = [h \in CheckedHosts |-> Networks]
  /\ lastBackup = [k \in Instances |-> "never"] /\ archive = [k \in Instances |-> NoTime]
  /\ samples \in [CheckedHosts -> {<<>>, <<[t |-> -SPAN, avail |-> FLOOR + 1]>>}]
  /\ blocks = <<>> /\ inquiry = NoCheck /\ learned = {} /\ hostExit = StillRunning
  /\ steady = TRUE /\ meanwhiles = 0 /\ silences = 0

HostNext ==
  \/ \E check \in {"backups", "headroom", "concentration"} : CheckStarts(check)
  \/ AskTimers \/ (\E n \in Networks : AskLastRun(n)) \/ AskArchive
  \/ \E level \in Levels : AskRoom(level)
  \/ AskFinders \/ CheckEnds
  \/ Meanwhile(HostTick)
  \/ \E k \in Instances : Meanwhile(Backup(k)) \/ Meanwhile(Rotated(k)) \/ Meanwhile(Timer(k))
  \/ \E f \in Finders : Meanwhile(Mined(f))

HostSpec == HostInit /\ [][HostNext]_hostVars

-----------------------------------------------------------------------------
\* What a host would tell who asked it everything at once.
Fresh(k) == archive[k] # NoTime /\ hostTime - archive[k] <= MAX_AGE
Restorable ==
  \A h \in CheckedHosts : /\ timers[h] # {}
                         /\ \A n \in timers[h] : lastBackup[<<h, n>>] = "success" /\ Fresh(<<h, n>>)
Faulty ==
  \E h \in CheckedHosts : \/ timers[h] = {}
                         \/ \E n \in timers[h] : lastBackup[<<h, n>>] = "failed" \/ ~Fresh(<<h, n>>)
About == {f.about : f \in learned}

\* A pass is earned and a finding is true (check_backups.py main's exit codes and
\* its comment "A false red costs as much as a false green"): hosts that stay as
\* they are while they are asked pass only when each can be restored, has room and
\* no finder has the chain, and fail only when one of them is at fault; a silent
\* host, a rotation or too few blocks decide neither way.
VerdictIsEarned ==
  /\ hostExit = 0 => silences = 0
  /\ hostExit # StillRunning /\ steady /\ "timers" \in About =>
       /\ hostExit = 0 => Restorable
       /\ hostExit = 1 => Faulty
       /\ Restorable /\ silences = 0 => hostExit = 0
       /\ Faulty /\ silences = 0 => hostExit = 1
  /\ hostExit = 0 /\ "room" \in About =>
       \A h \in CheckedHosts : samples[h] # <<>> /\ samples[h][Len(samples[h])].avail >= FLOOR
  /\ hostExit # StillRunning /\ steady /\ silences = 0 /\ "finders" \in About
     /\ Len(blocks) >= MIN_BLOCKS =>
       (hostExit = 1 <=> \E f \in Finders : 100 * Of(DOMAIN blocks, f) >= FAIL * Len(blocks))
=============================================================================
