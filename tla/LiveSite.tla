------------------------------- MODULE LiveSite -------------------------------
(* What the livesite editor promises: editors work on a draft of the       *)
(* containers of a site, visitors see the live ones, and the publish       *)
(* button, and nothing else, deploys the draft.                            *)
CONSTANTS Names, Styles, Plain, Widgets, Absent

VARIABLES live, draft
site == <<live, draft>>

Fresh == [style |-> Plain, widgets |-> {}]

Init == /\ live \in [Names -> {Fresh, Absent}]
        /\ draft = live

\* A template names a container for the first time.
Create(n) ==
    /\ live[n] = Absent
    /\ live' = [live EXCEPT ![n] = Fresh]
    /\ draft' = [draft EXCEPT ![n] = Fresh]

Edit(n) ==
    /\ draft[n] # Absent
    /\ \/ \E s \in Styles : draft' = [draft EXCEPT ![n].style = s]
       \/ \E w \in Widgets : draft' = [draft EXCEPT ![n].widgets = @ \cup {w}]
       \/ \E w \in Widgets : draft' = [draft EXCEPT ![n].widgets = @ \ {w}]
    /\ live' = live

Publish == live' = draft /\ draft' = draft

Next == Publish \/ \E n \in Names : Create(n) \/ Edit(n)
Spec == Init /\ [][Next]_site
=============================================================================
