------------------------------ MODULE OpsPanel ------------------------------
(***************************************************************************)
(* ops/ops.py: one page about every host and every check.  A collector     *)
(* asks the hosts each minute and runs the checks each ten, one after the  *)
(* other, while the page is served from what it has put together so far.   *)
(***************************************************************************)
EXTENDS Integers, Sequences, FiniteSets

CONSTANTS HOSTS, CHECKS,          \* sequences of names
          Tries,                  \* of one command
          SLOW_EVERY,             \* rounds between two runs of the checks
          MaxNow, MaxOpsFaults    \* bounds

VARIABLES now, up, health,   \* the clock; which hosts run; which checks would pass
          port,              \* who listens: nobody, a copy of this or another
          collecting,        \* the collector
          panel, stateFile,  \* _state, and state.json
          answered, passed,  \* <<host, time>> and <<check, time>> that were so
          lastSlow, opsFaults

opsVars == <<now, up, health, port, collecting, panel, stateFile, answered, passed, lastSlow,
             opsFaults>>

Stopped == [pc |-> "off"]
NoAnswer == [rc |-> 255, end |-> FALSE]

-----------------------------------------------------------------------------
\* What one ssh comes back with.  A host that runs may be late, or its link cut
\* before the marker; some sections may be empty, or not be what was expected.
_rsh_once(h) ==
  IF h \notin up THEN {NoAnswer}
  ELSE {NoAnswer, [rc |-> 1, end |-> FALSE]}
       \cup {[rc |-> rc, end |-> TRUE, parts |-> parts] :
               rc \in {0, 1}, parts \in {"numbers", "empty", "words"}}

\* A field that is empty, or is not a number, is not known.
one(part) == IF part = "numbers" THEN "known" ELSE "unknown"

\* A mutant: an answer without its marker counts.
Marked_Anything(out) == out.rc # 255
Marked(out) == out.end

\* The card of a host.  The memory is split and cast with no net under it, and
\* what that raises is caught where the host is called unreachable.
collect_host(out) ==
  IF ~Marked(out) \/ (out.end /\ out.parts = "words")
  THEN [reachable |-> FALSE, checked |-> now]
  ELSE [reachable |-> TRUE, checked |-> now, warning |-> out.rc # 0,
        height |-> IF out.end THEN one(out.parts) ELSE "unknown"]

\* A round begins.
Round ==
  /\ collecting.pc = "sleep" /\ now < MaxNow
  /\ collecting' = [pc |-> "ask", host |-> 1, tries |-> 0, cards |-> [i \in {} |-> 0]]
  /\ UNCHANGED <<now, up, health, port, panel, stateFile, answered, passed, lastSlow, opsFaults>>

\* rsh: only a call that did not come through is made again.
rsh ==
  /\ collecting.pc = "ask"
  /\ LET h == HOSTS[collecting.host] IN
     \E out \in _rsh_once(h) :
       /\ out.rc = 255 /\ h \in up => opsFaults < MaxOpsFaults
       /\ opsFaults' = IF out.rc = 255 /\ h \in up THEN opsFaults + 1 ELSE opsFaults
       /\ answered' = IF out.end THEN answered \cup {<<h, now>>} ELSE answered
       /\ IF out.rc = 255 /\ collecting.tries + 1 < Tries
          THEN collecting' = [collecting EXCEPT !.tries = @ + 1]
          ELSE LET cards == [i \in 1 .. collecting.host |->
                               IF i = collecting.host THEN collect_host(out)
                               ELSE collecting.cards[i]]
               IN  collecting' = IF collecting.host = Len(HOSTS)
                                 THEN [pc |-> "cards", cards |-> cards]
                                 ELSE [pc |-> "ask", host |-> collecting.host + 1,
                                       tries |-> 0, cards |-> cards]
  /\ UNCHANGED <<now, up, health, port, panel, stateFile, passed, lastSlow>>

Cards ==
  /\ collecting.pc = "cards"
  /\ panel' = [panel EXCEPT !.hosts = collecting.cards, !.generated = now]
  /\ IF now - lastSlow > SLOW_EVERY
     THEN lastSlow' = now /\ collecting' = [pc |-> "check", check |-> 1]
     ELSE collecting' = [pc |-> "open"] /\ UNCHANGED lastSlow
  /\ UNCHANGED <<now, up, health, port, stateFile, answered, passed, opsFaults>>

\* A check begins; what it will say is fixed by how things are while it runs.
CheckBegins ==
  /\ collecting.pc = "check"
  /\ collecting' = [pc |-> "wait", check |-> collecting.check, ran |-> now]
  /\ UNCHANGED <<now, up, health, port, panel, stateFile, answered, passed, lastSlow, opsFaults>>

status(rc) == CASE rc = 0 -> "ok" [] rc = 1 -> "bad" [] OTHER -> "unknown"

\* Exit 2 is a check that could not look, and so are one that was not done in
\* time and one whose interpreter is not there.
run_check ==
  /\ collecting.pc = "wait"
  /\ LET c == CHECKS[collecting.check] IN
     \E rc \in {IF c \in health THEN 0 ELSE 1, 2} :
       /\ rc = 2 => opsFaults < MaxOpsFaults
       /\ opsFaults' = IF rc = 2 THEN opsFaults + 1 ELSE opsFaults
       /\ passed' = IF rc = 0 THEN passed \cup {<<c, collecting.ran>>} ELSE passed
       /\ panel' = [panel EXCEPT
            !.checks = [k \in DOMAIN panel.checks \cup {c} |->
                          IF k = c THEN [status |-> status(rc), ran |-> collecting.ran]
                          ELSE panel.checks[k]],
            !.generated = IF collecting.check = Len(CHECKS) THEN now ELSE @]
  /\ collecting' = IF collecting.check = Len(CHECKS) THEN [pc |-> "open"]
                   ELSE [pc |-> "check", check |-> collecting.check + 1]
  /\ UNCHANGED <<now, up, health, port, stateFile, answered, lastSlow>>

\* Beside the file, and then over it; a refused write is passed over.
WritesState ==
  /\ collecting.pc = "open"
  /\ \/ stateFile' = panel /\ UNCHANGED opsFaults
     \/ /\ opsFaults < MaxOpsFaults /\ opsFaults' = opsFaults + 1 /\ UNCHANGED stateFile
  /\ collecting' = [pc |-> "sleep"]
  /\ UNCHANGED <<now, up, health, port, panel, answered, passed, lastSlow>>

-----------------------------------------------------------------------------
\* main: the port is what keeps a second copy away.  A copy that is already
\* serving ends this one with 0, and anything else on the port with 2.
Empty == [generated |-> 0, hosts |-> [i \in {} |-> 0], checks |-> [c \in {} |-> 0]]

already_serving == port = "panel"
main(code) ==
  \/ /\ code = "serves" /\ port = "nobody" /\ port' = "panel"
     /\ collecting' = [pc |-> "sleep"] /\ panel' = Empty /\ lastSlow' = -SLOW_EVERY - 1
  \/ /\ code = "0" /\ already_serving
     /\ UNCHANGED <<port, collecting, panel, lastSlow>>
  \/ /\ code = "2" /\ port = "other"
     /\ UNCHANGED <<port, collecting, panel, lastSlow>>

Main == /\ \E code \in {"serves", "0", "2"} : main(code)
        /\ UNCHANGED <<now, up, health, stateFile, answered, passed, opsFaults>>

PanelDies ==
  /\ port = "panel" /\ opsFaults < MaxOpsFaults /\ opsFaults' = opsFaults + 1
  /\ port' = "nobody" /\ collecting' = Stopped
  /\ UNCHANGED <<now, up, health, panel, stateFile, answered, passed, lastSlow>>

OtherListens ==
  /\ port # "panel"
  /\ port' = IF port = "nobody" THEN "other" ELSE "nobody"
  /\ UNCHANGED <<now, up, health, collecting, panel, stateFile, answered, passed, lastSlow, opsFaults>>

\* The hosts and the repository change while the collector is at work.
World ==
  /\ now < MaxNow /\ now' = now + 1
  /\ \/ UNCHANGED <<up, health>>
     \/ \E h \in {HOSTS[i] : i \in DOMAIN HOSTS} :
          up' = (IF h \in up THEN up \ {h} ELSE up \cup {h}) /\ UNCHANGED health
     \/ \E c \in {CHECKS[i] : i \in DOMAIN CHECKS} :
          health' = (IF c \in health THEN health \ {c} ELSE health \cup {c}) /\ UNCHANGED up
  /\ UNCHANGED <<port, collecting, panel, stateFile, answered, passed, lastSlow, opsFaults>>

OpsInit ==
  /\ now = 1 /\ up = {HOSTS[i] : i \in DOMAIN HOSTS} /\ health = {CHECKS[i] : i \in DOMAIN CHECKS}
  /\ port = "nobody" /\ collecting = Stopped /\ panel = Empty /\ stateFile = Empty
  /\ answered = {} /\ passed = {} /\ lastSlow = 0 /\ opsFaults = 0

OpsNext == \/ World \/ Main \/ PanelDies \/ OtherListens
           \/ Round \/ rsh \/ Cards \/ CheckBegins \/ run_check \/ WritesState

OpsSpec == OpsInit /\ [][OpsNext]_opsVars

-----------------------------------------------------------------------------
\* What the page or its file calls well was so at the moment it names beside it:
\* a host that is shown as running answered to the end then, and a check that is
\* shown as passed ran from then and passed, whatever failed or changed around it.
Honest(page) ==
  /\ \A i \in DOMAIN page.hosts :
       page.hosts[i].reachable => <<HOSTS[i], page.hosts[i].checked>> \in answered
  /\ \A c \in DOMAIN page.checks :
       page.checks[c].status = "ok" => <<c, page.checks[c].ran>> \in passed
PanelIsHonest == Honest(panel) /\ Honest(stateFile)
=============================================================================
