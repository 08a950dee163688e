---------------------------- MODULE SupplyAudit ----------------------------
(***************************************************************************)
(* scripts/verify_supply.py, which reads the money's constants out of a    *)
(* C++ header and says whether they close, and scripts/show_vesting.py,    *)
(* which reads the founder's locks out of block 0.  The header is edited   *)
(* from time to time; amounts are in units of which COIN are a coin.       *)
(***************************************************************************)
EXTENDS Integers, Sequences, SequencesExt, FiniteSetsExt, TLC

CONSTANTS Header,             \* [name, times, of]: a constant is a number, or so many of an
                              \* earlier one
          Edits,              \* name -> what an edit may make of its number
          Unlocks,            \* unlock times the table may hold
          CAP, PREMINE, DEV0, FIRST,   \* what the audit has in it, in coins or units
          TIMESTAMPS, SPAN,   \* a lock time above is a time; the years of the schedule
          Elsewhere,          \* names that other languages repeat
          FOUNDER_LIMIT,      \* percent of the cap (15)
          SHOWN_TOTAL, SHOWN_OPEN, SHOWN_ROWS,   \* what show_vesting expects
          MaxEdits, MaxNow    \* bounds

VARIABLES header, unlocks,
          copies,             \* name -> its number in the other languages
          now,
          audit,              \* "unasked", "passed", "failed" or "traceback"
          shown,              \* [open, locked, code], or none
          edits

auditVars == <<header, unlocks, copies, now, audit, shown, edits>>

Absent == -1
NotShown == [code |-> -1]

\* parse_params_header: a constant whose expression names one that is not known yet
\* is left out, silently.
Known(header_) ==
  FoldLeft(LAMBDA out, d :
             IF d.of = "" THEN (d.name :> d.times) @@ out
             ELSE IF d.of \in DOMAIN out THEN (d.name :> d.times * out[d.of]) @@ out ELSE out,
           <<>>, header_)

Needed == {"COIN", "MAX_MONEY", "PREMINE", "MINING", "INITIAL", "INTERVAL", "HALVINGS", "DEVFEE",
           "SUNSET", "TRANCHES", "TRANCHE_AMT", "GTIME"}

block_subsidy(height, P) ==
  IF height < 0 THEN 0
  ELSE IF height = 0 THEN P["PREMINE"]
  ELSE IF (height - 1) \div P["INTERVAL"] >= P["HALVINGS"] THEN 0
  ELSE P["INITIAL"] \div 2^((height - 1) \div P["INTERVAL"])

\* emission_table: the epochs that pay anything.
emission_table(P) == {e \in 0..(P["HALVINGS"] - 1) : P["INITIAL"] \div 2^e > 0}

\* [2] and [3]: the series closes on the cap, and the replay stays under it.
SeriesCloses(P) ==
  LET total == P["PREMINE"]
               + MapThenSumSet(LAMBDA e : (P["INITIAL"] \div 2^e) * P["INTERVAL"], emission_table(P))
      last == IF emission_table(P) = {} THEN 0 ELSE (Max(emission_table(P)) + 1) * P["INTERVAL"]
  IN  /\ P["INTERVAL"] * P["INITIAL"] * 2 = P["MINING"]
      /\ P["PREMINE"] + P["MINING"] = P["MAX_MONEY"]
      /\ P["MAX_MONEY"] = CAP * P["COIN"] /\ P["PREMINE"] = PREMINE * P["COIN"]
      /\ total <= P["MAX_MONEY"]
      /\ P["INITIAL"] \div 2^P["HALVINGS"] = 0
      /\ block_subsidy(last + 1, P) = 0
      /\ P["MAX_MONEY"] - total < P["COIN"]

\* A mutant: whole epochs, the one the sunset is in too.
dev_total_Whole(P) ==
  LET paying == {e \in emission_table(P) : e * P["INTERVAL"] + 1 <= P["SUNSET"]}
  IN  MapThenSumSet(LAMBDA e : P["INTERVAL"] * (((P["INITIAL"] \div 2^e) * P["DEVFEE"]) \div 100),
                    paying)

\* The treasury's income over its life, epoch by epoch, up to the sunset.
dev_total(P) ==
  LET paying == {e \in emission_table(P) : e * P["INTERVAL"] + 1 <= P["SUNSET"]}
      last(e) == Min({(e + 1) * P["INTERVAL"], P["SUNSET"]})
  IN  MapThenSumSet(LAMBDA e : (last(e) - e * P["INTERVAL"])
                               * (((P["INITIAL"] \div 2^e) * P["DEVFEE"]) \div 100), paying)

\* [4]: a share of the subsidy that ends.
TreasuryCloses(P) ==
  /\ (P["INITIAL"] * P["DEVFEE"]) \div 100 = DEV0
  /\ P["SUNSET"] < P["HALVINGS"] * P["INTERVAL"]
  /\ dev_total(P) < P["MINING"]
  /\ 100 * (dev_total(P) + P["PREMINE"]) < FOUNDER_LIMIT * P["MAX_MONEY"]

\* [4b]: tranches that sum to the premine and unlock one after another, all of them
\* after the launch.
VestingCloses(P) ==
  /\ Len(unlocks) = P["TRANCHES"]
  /\ P["TRANCHES"] * P["TRANCHE_AMT"] = P["PREMINE"]
  /\ \A i \in DOMAIN unlocks : unlocks[i] > TIMESTAMPS /\ unlocks[i] > P["GTIME"]
  /\ \A i \in 1..(Len(unlocks) - 1) : unlocks[i] < unlocks[i + 1]
  /\ unlocks[Len(unlocks)] - P["GTIME"] = SPAN

\* [6]: the heights at which the subsidy is known.
SpotsAgree(P) ==
  LET first == FIRST * P["COIN"]
      at(epoch) == epoch * P["INTERVAL"] + 1
  IN  /\ block_subsidy(0, P) = P["PREMINE"]
      /\ block_subsidy(1, P) = first /\ block_subsidy(P["INTERVAL"], P) = first
      /\ block_subsidy(at(1), P) = first \div 2
      /\ block_subsidy(2 * P["INTERVAL"], P) = first \div 2
      /\ block_subsidy(at(2), P) = first \div 4
      /\ block_subsidy(at(P["HALVINGS"]), P) = 0

\* [8], _check_other_languages: the number each of the others has, if it is there.
OthersAgree(P) == \A name \in Elsewhere : copies[name] # Absent /\ copies[name] = P[name]

\* main: any check that fails, fails it; a constant that was left out is an exception.
Audit ==
  /\ audit = "unasked"
  /\ LET P == Known(header)
     IN  audit' = IF ~(Needed \subseteq DOMAIN P) THEN "traceback"
                  ELSE IF /\ SeriesCloses(P) /\ TreasuryCloses(P) /\ VestingCloses(P)
                          /\ SpotsAgree(P) /\ OthersAgree(P)
                       THEN "passed" ELSE "failed"
  /\ UNCHANGED <<header, unlocks, copies, now, shown, edits>>

-----------------------------------------------------------------------------
\* describe: the lock in an output's script; one that cannot be read is no lock.
describe(out) == IF out.kind = "locked" THEN out.at ELSE Absent

IsOpen(out) == describe(out) = Absent \/ now >= describe(out)

Amount(outputs) == MapThenSumSet(LAMBDA i : outputs[i].value, DOMAIN outputs)

\* main of show_vesting.py: what is open and what is locked, and whether that is the
\* published schedule; a single output is regtest's.
Shows(outputs) ==
  /\ shown = NotShown /\ edits = 0
  /\ LET total == Amount(outputs)
         open == MapThenSumSet(LAMBDA i : outputs[i].value,
                               {i \in DOMAIN outputs : IsOpen(outputs[i])})
         problem == \/ total # SHOWN_TOTAL
                    \/ Len(outputs) = SHOWN_ROWS /\ open # SHOWN_OPEN
                    \/ Len(outputs) \notin {1, SHOWN_ROWS}
     IN  shown' = [code |-> IF problem THEN 1 ELSE 0, open |-> open, locked |-> total - open,
                   outputs |-> outputs, at |-> now]
  /\ UNCHANGED <<header, unlocks, copies, now, audit, edits>>

Tick == edits = 0 /\ now < MaxNow /\ now' = now + 1 /\ shown' = NotShown
        /\ UNCHANGED <<header, unlocks, copies, audit, edits>>

\* An edit of the header, of the table or of one of the copies.
Edited == edits < MaxEdits /\ edits' = edits + 1 /\ audit' = "unasked" /\ shown' = NotShown
          /\ UNCHANGED now
EditsHeader(i, times) ==
  /\ Edited /\ header' = [header EXCEPT ![i].times = times] /\ UNCHANGED <<unlocks, copies>>
MovesUp(i) ==
  /\ Edited /\ header' = [header EXCEPT ![i] = header[i + 1], ![i + 1] = header[i]]
  /\ UNCHANGED <<unlocks, copies>>
EditsTable(i, t) == Edited /\ unlocks' = [unlocks EXCEPT ![i] = t] /\ UNCHANGED <<header, copies>>
EditsCopy(name, n) ==
  /\ Edited /\ copies' = [copies EXCEPT ![name] = n] /\ UNCHANGED <<header, unlocks>>

AuditInit ==
  /\ header = Header /\ copies = [name \in Elsewhere |-> Known(Header)[name]]
  /\ unlocks \in [1..Known(Header)["TRANCHES"] -> Unlocks]
  /\ now = 0 /\ audit = "unasked" /\ shown = NotShown /\ edits = 0

AuditNext ==
  \/ Audit \/ Tick
  \/ \E kinds \in [DOMAIN unlocks -> {"locked", "open", "unparsed"}] :
        Shows([i \in DOMAIN unlocks |-> [value |-> SHOWN_TOTAL \div Len(unlocks),
                                         kind |-> kinds[i], at |-> unlocks[i]]])
  \/ \E i \in DOMAIN header : \/ \E times \in Edits[header[i].name] : EditsHeader(i, times)
                              \/ i < Len(header) /\ MovesUp(i)
  \/ \E i \in DOMAIN unlocks, t \in Unlocks : EditsTable(i, t)
  \/ \E name \in Elsewhere : \E n \in Edits[name] \cup {Absent} : EditsCopy(name, n)

-----------------------------------------------------------------------------
\* "Exit code 0 means the 22,000,000 WAM cap is mathematically enforced"
\* (verify_supply.py's docstring): after a pass the blocks of any chain, one by one,
\* mint no more than the cap and at most a coin less, the treasury gets what was
\* printed, nothing of the reserve is open at the launch, and no other language has
\* another number; and what show_vesting calls locked cannot be spent now.
PassMeansCap ==
  /\ audit = "passed" =>
       LET P == Known(header)
           end == P["HALVINGS"] * P["INTERVAL"] + P["INTERVAL"]
           minted == MapThenSumSet(LAMBDA h : block_subsidy(h, P), 0..end)
           paid == MapThenSumSet(LAMBDA h : (block_subsidy(h, P) * P["DEVFEE"]) \div 100,
                                 1..P["SUNSET"])
       IN  /\ minted <= CAP * P["COIN"] /\ minted > CAP * P["COIN"] - P["COIN"]
           /\ paid = dev_total(P)
           /\ \A i \in DOMAIN unlocks : unlocks[i] > P["GTIME"]
           /\ \A name \in Elsewhere : copies[name] = P[name]
  /\ shown # NotShown =>
       shown.locked <= MapThenSumSet(LAMBDA i : shown.outputs[i].value,
                                     {i \in DOMAIN shown.outputs :
                                        /\ shown.outputs[i].kind # "open"
                                        /\ shown.outputs[i].at > shown.at})
=============================================================================
