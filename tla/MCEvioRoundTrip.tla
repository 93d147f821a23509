-------------------------- MODULE MCEvioRoundTrip --------------------------
EXTENDS EvioRoundTrip

(* Hits of either flash ADC with their continuation words.                 *)
C(n) == Cont(n, 0)
P(n) == Cont(n, 1)
Time == Hit(3, 0, 0, <<C(1)>>)
Window(c) == Hit(4, c, 4, <<C(1), C(2)>>)
One(t, c) == Hit(t, c, 0, <<>>)
Pulses(c) == Hit(9, c, 1, <<P(7), C(8), P(9), C(3)>>)
Two(t, c) == Hit(t, c, 0, <<C(4)>>)
Peak(c) == Hit(9, c, 2, <<C(5), C(6)>>)

A250 == Module("FADC250", 3, <<Time, Window(1), One(5, 2), One(6, 0), Pulses(3), One(10, 4), One(15, 0)>>)
B250 == Module("FADC250", 4, <<One(7, 1), One(8, 1), Pulses(5)>>)
C250 == Module("FADC250", 7, <<Hit(9, 1, 1, <<P(0), C(8), C(8), C(8)>>), One(7, 2), Pulses(3)>>)
A125 == Module("FADC125", 5, <<Time, Window(1), Two(5, 2), Two(6, 3), One(7, 4)>>)
B125 == Module("FADC125", 6, <<Peak(6), One(8, 7), One(10, 7)>>)

Bank(roc, blocks) == [roc |-> roc, blocks |-> blocks]
Cdaq(banks) == [outer |-> "FF33", trigger |-> <<>>, banks |-> banks]
Outer1(tag, contents) == [outer |-> tag, trigger |-> contents, banks |-> <<>>]

BuiltTrigger ==
    LET b == <<[Header("built", 1) EXCEPT !.w = 1], Length(6)>> \o [k \in 1..6 |-> Blank]
             \o <<Length(1), Blank, [Length(3) EXCEPT !.w = 40], Blank, Blank, Blank>>
    IN  <<Length(Len(b))>> \o b

Config == Words("config",
    <<Section(1, 2), Value("Df250Config", 0), Value("Df125Config", 0), Section(2, 1), Value("DF1TDCConfig", 0)>>)
Frames == <<[apv |-> 1, bins |-> 2], [apv |-> 2, bins |-> 1]>>
Gem == Srs(0, Frames)
GemSilent == Srs(1, <<[apv |-> 1, bins |-> 1], [apv |-> 2, bins |-> 0], [apv |-> 3, bins |-> 1]>>)
GemLast == Srs(0, <<[apv |-> 4, bins |-> 3], [apv |-> 5, bins |-> 0]>>)
Epics == Outer1("EPICS", <<Value("timestamp", 1), Blank, Value("value", 1), Blank>>)

MCSources == <<
    <<Cdaq(<<Bank(10, <<RawTrigger(7, 1), Crate(<<A250>>), Words("other", <<Blank>>)>>),
             Bank(20, <<RawTrigger(7, 0), Crate(<<A125, B125>>)>>)>>)>>,
    <<Cdaq(<<Bank(10, <<RawTrigger(7, 0), Crate(<<B250>>), Config>>),
             Bank(40, <<Crate(<<B125>>), Gem>>)>>)>>,
    <<Cdaq(<<Bank(10, <<RawTrigger(7, 0), GemSilent, GemLast>>),
             Bank(20, <<Crate(<<A250, B250>>), Crate(<<C250>>)>>)>>)>>,
    <<[outer |-> "FF50", trigger |-> BuiltTrigger,
       banks |-> <<Bank(40, <<Crate(<<B125, A125>>)>>),
                   Bank(10, <<Words("jlab", <<BlockHeader("TID", 0)>>), Gem>>)>>]>>,
    <<Outer1("FFD1", <<Blank, Blank>>)>>,
    <<Outer1("FF32", <<Blank, Blank>>)>>,
    <<Outer1("other", <<Blank>>), Outer1("BOR", <<Blank>>)>>,
    <<Epics, Cdaq(<<Bank(10, <<RawTrigger(7, 0), Crate(<<B250>>), Gem>>)>>)>> >>
=============================================================================
