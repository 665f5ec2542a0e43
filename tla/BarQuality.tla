----------------------------- MODULE BarQuality -----------------------------
(***************************************************************************)
(* validate_daily_bars (src/src/mltrade/data/quality.py): the rules daily  *)
(* bars must pass before they are published.  Bars come as a sequence of   *)
(* [symbol, session] records; the calendar's sessions are numbered         *)
(* consecutively, and a number above NumSymbols is a symbol outside the    *)
(* universe.  The rule on non-finite values is left out: a DailyBar with   *)
(* such a value cannot be constructed, so it never fires.                  *)
(***************************************************************************)
EXTENDS Accounting, SequencesExt

CONSTANT ExpectedLast     \* the session the bars must end at

BarSymbols(bars) == {bar.symbol : bar \in ToSet(bars)}
BarSessions(bars) == {bar.session : bar \in ToSet(bars)}
SessionsOf(bars, s) == {bar.session : bar \in {b \in ToSet(bars) : b.symbol = s}}
LastSession(bars) == CHOOSE d \in BarSessions(bars) : \A e \in BarSessions(bars) : e <= d
-----------------------------------------------------------------------------
SymbolOutsideUniverse(bars) == ~ (BarSymbols(bars) \subseteq Symbols)
MissingUniverseSymbol(bars) == ~ (Symbols \subseteq BarSymbols(bars))
DuplicateBar(bars) == ~ IsInjective(bars)

\* By session, then by symbol.
UnsortedBars(bars) ==
    \E i, j \in DOMAIN bars :
        /\ i < j
        /\ \/ bars[i].session > bars[j].session
           \/ bars[i].session = bars[j].session /\ bars[i].symbol > bars[j].symbol

LatestSessionMismatch(bars) == LastSession(bars) # ExpectedLast

\* Only looked at when the latest session is the expected one.
IncompleteLatestSession(bars) ==
    /\ ~LatestSessionMismatch(bars)
    /\ \E s \in Symbols :
          ExpectedLast \notin SessionsOf(bars, s)

\* Mutant: the rule is not evaluated.
NoMissingSession(bars) == FALSE

\* A session of the calendar is missing inside the range of a universe symbol.
MissingSession(bars) ==
    \E s \in Symbols \cap BarSymbols(bars) :
        \E first, last \in SessionsOf(bars, s) :
            ~ (first .. last \subseteq SessionsOf(bars, s))
-----------------------------------------------------------------------------
QualityBlocked(bars) ==
    \/ bars = <<>>
    \/ /\ bars # <<>>
       /\ \/ SymbolOutsideUniverse(bars)
          \/ MissingUniverseSymbol(bars)
          \/ DuplicateBar(bars)
          \/ UnsortedBars(bars)
          \/ LatestSessionMismatch(bars)
          \/ IncompleteLatestSession(bars)
          \/ MissingSession(bars)
=============================================================================
