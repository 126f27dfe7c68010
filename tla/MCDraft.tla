------------------------------- MODULE MCDraft --------------------------------
EXTENDS DraftProperties

G1 == "group:ops"
G2 == "group:dev"
T1 == "tag:web"
U1 == "alice@"
U2 == "bob@"

SmallText ==
  [keyed |-> [groups |-> G1 :> {U1}, tagOwners |-> T1 :> {G1}, hosts |-> <<>>, routes |-> "net" :> {T1}],
   rules |-> <<{G1}, {U1}>>, extras |-> <<{G1}, {U1}>>, exitNode |-> {T1}, randomize |-> FALSE]

SmallBodies == {{U1, G1}}
SmallMembers == [groups |-> {{U2}}, tagOwners |-> {{U1}}, hosts |-> {{U1}}, routes |-> {{U1}}]
SmallOthers == {[SmallText EXCEPT !.rules = <<{U2}, {G1}>>, !.extras = <<{U2}, {G1}>>, !.keyed.groups = (G1 :> {U2})]}
=============================================================================
