---------------------------- MODULE MCSroStream ----------------------------
(***************************************************************************)
(* Streams for sro_recv: files of a few events, the ways to send and to    *)
(* receive them, and the ways in which a run ends.                         *)
(***************************************************************************)
EXTENDS SroStream

Data(n)    == [n |-> n, control |-> FALSE]
Control(n) == [n |-> n, control |-> TRUE]
Good(events)  == [kind |-> "block", claims |-> Len(events), events |-> events]
Short(events) == [kind |-> "block", claims |-> Len(events) + 1, events |-> events]
Cut == [kind |-> "cut", claims |-> 0, events |-> <<>>]
Bad == [kind |-> "bad", claims |-> 0, events |-> <<>>]

Calm  == [kind |-> "cmsg", loop |-> FALSE, max_events |-> 0, may_die |-> FALSE,
          garbles |-> 0]
Patient == [framing |-> "auto", keep_listening |-> FALSE, keep_control |-> FALSE,
            idle |-> FALSE, max_records |-> 0, interrupt |-> FALSE, disk_may_fail |-> FALSE]

Of(sender, files) == sender @@ [files |-> files]
Input(ss, o) == [senders |-> ss, opt |-> o]

(* A file with a control event between data, one that was cut, and one the *)
(* sender refuses in its second block.                                     *)
Mixed  == <<Good(<<Data(3), Control(2)>>), Good(<<Data(2)>>)>>
CutOff == <<Good(<<Data(2)>>), Cut>>
Wrong  == <<Good(<<Data(2)>>), Bad>>
Lies   == <<Short(<<Data(3)>>)>>

Kinds == {"cmsg", "record", "emu", "long emu"}
EveryFraming ==
    {Input(<<Of([Calm EXCEPT !.kind = k], <<CutOff, Mixed>>)>>,
           [Patient EXCEPT !.keep_control = kc, !.interrupt = i]) :
        k \in Kinds, kc \in BOOLEAN, i \in BOOLEAN}
Raw ==
    {Input(<<Of([Calm EXCEPT !.kind = "raw"], <<<<Good(<<Data(10), Data(2), Control(2)>>)>>>>)>>,
           [Patient EXCEPT !.framing = "raw"]),
     Input(<<Of([Calm EXCEPT !.kind = "bare emu"], <<<<Good(<<Data(2), Control(2), Data(3)>>)>>>>)>>,
           [Patient EXCEPT !.framing = "emu"])}

(* Limits on both sides, with an input that is sent again and again.       *)
Limited ==
    {Input(<<Of([Calm EXCEPT !.loop = TRUE, !.max_events = m], <<CutOff>>)>>,
           [Patient EXCEPT !.max_records = r]) : m \in {4}, r \in {0, 2}}
Damage ==
    {Input(<<Of(Calm, <<f>>)>>, Patient) : f \in {Wrong, Lies}}
        \cup {Input(<<Of([Calm EXCEPT !.kind = k, !.garbles = g], <<Mixed>>)>>, Patient) :
                k \in Kinds, g \in {1, 2}}
(* Senders that die and links that fall silent, one run after another.     *)
Runs ==
    {Input(<<Of([Calm EXCEPT !.may_die = TRUE, !.kind = k], <<Mixed>>), Of(Calm, <<CutOff>>)>>,
           [Patient EXCEPT !.keep_listening = TRUE, !.idle = i, !.interrupt = TRUE]) :
        k \in {"cmsg", "emu"}, i \in BOOLEAN}
BadDisk ==
    {Input(<<Of([Calm EXCEPT !.kind = "record"], <<Mixed, CutOff>>)>>, [Patient EXCEPT !.disk_may_fail = TRUE]),
     Input(<<Of([Calm EXCEPT !.loop = TRUE, !.max_events = 6], <<CutOff>>)>>, [Patient EXCEPT !.disk_may_fail = TRUE])}
(* A sender the receiver cannot understand.                                *)
Unknown ==
    {Input(<<Of([Calm EXCEPT !.kind = "raw"], <<<<Good(<<Data(10)>>)>>>>)>>, Patient)}

MCSessions == EveryFraming \cup Raw \cup Limited \cup Damage \cup Runs \cup BadDisk \cup Unknown
=============================================================================
