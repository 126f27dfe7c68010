------------------------------- MODULE RuleForm -------------------------------
(***************************************************************************)
(* The destinations in the form of a rule                                  *)
(* (frontend/src/pages/acls/RulesTab.tsx, RuleEditorModal, with ruleToForm,*)
(* formToRule and validateRule of model.ts).  A rule lists destinations,   *)
(* each a target with its ports; the form has a list of targets, one Ports *)
(* field for all of them, and keeps the ports each target had.             *)
(*                                                                         *)
(* A port specification is the set of its entries: {} is an empty field,   *)
(* and "*" with other entries does not parse.                              *)
(***************************************************************************)
EXTENDS Naturals, Sequences, SequencesExt

CONSTANTS
  RfTargets,   \* selectors
  RfPorts,     \* ports and port ranges
  RfProtocols, \* protocols
  RfPortless,  \* those without ports
  RfRules      \* inputs: the rules whose form is opened

RfAll == {"*"}
RfSpecs == {RfAll} \cup ((SUBSET RfPorts) \ {{}})
RfTyped == SUBSET (RfPorts \cup RfAll)

ASSUME RfAssumption ==
  /\ RfPortless \subseteq RfProtocols /\ "*" \notin RfPorts
  /\ \A r \in RfRules : r.dst \in Seq([target : RfTargets, ports : RfSpecs])

VARIABLES
  rfRule,   \* the rule that is edited, <<>> for a new one
  rfForm,   \* the open form, if any
  rfSaved   \* the destinations that were submitted last, if any

rfVars == <<rfRule, rfForm, rfSaved>>

RfTargetsOf(dst) == {dst[i].target : i \in DOMAIN dst}

\* parsePorts accepts.
RfParses(spec) == spec # {} /\ ("*" \in spec => spec = RfAll)

\* Mutant of RfMergePorts: the later entry counts.
RfMergePortsLast(a, b) == b
RfMergePorts(a, b) == IF RfAll \in {a, b} THEN RfAll ELSE a \cup b

\* ruleToForm, for one more destination: a target listed twice is one chip
\* with the ports of both.
RfWithChip(chips, d) == IF d.target \in Range(chips) THEN chips ELSE Append(chips, d.target)
RfWithPorts(own, d) ==
  [t \in DOMAIN own \cup {d.target} |->
     IF t # d.target THEN own[t]
     ELSE IF t \in DOMAIN own THEN RfMergePorts(own[t], d.ports) ELSE d.ports]

RfChips(dst) ==
  LET chips[n \in 0..Len(dst)] == IF n = 0 THEN <<>> ELSE RfWithChip(chips[n - 1], dst[n])
  IN  chips[Len(dst)]
RfOwn(dst) ==
  LET own[n \in 0..Len(dst)] == IF n = 0 THEN <<>> ELSE RfWithPorts(own[n - 1], dst[n])
  IN  own[Len(dst)]

RfFields(dst) ==
  LET own == RfOwn(dst)
      specs == {own[t] : t \in DOMAIN own}
  IN  [chips |-> RfChips(dst), own |-> own,
       ports |-> IF \E spec \in specs : specs = {spec} THEN CHOOSE spec \in specs : TRUE ELSE {}]

RfEmptyFields == [chips |-> <<>>, own |-> <<>>, ports |-> RfAll]

RfShared(f, t) ==
  IF f.ports # {} THEN f.ports ELSE IF t \in DOMAIN f.own THEN f.own[t] ELSE {}

\* formToRule: untouched destinations are written back exactly as loaded.
RfWritten(rule, form) ==
  IF rule # <<>> /\ form.fields = RfFields(rule[1].dst) THEN rule[1].dst
  ELSE [i \in DOMAIN form.fields.chips |->
          [target |-> form.fields.chips[i], ports |-> RfShared(form.fields, form.fields.chips[i])]]

\* validateRule finds no error.
RfValid(form) ==
  LET f == form.fields
  IN  /\ f.chips # <<>>
      /\ \A i \in DOMAIN f.chips :
           LET spec == RfShared(f, f.chips[i])
           IN  RfParses(spec) /\ (form.proto \in RfPortless => spec = RfAll)

-----------------------------------------------------------------------------
RfInit == rfRule = <<>> /\ rfForm = <<>> /\ rfSaved = <<>>

RfOpen ==
  /\ rfForm = <<>> /\ rfSaved' = <<>>
  /\ \/ \E rule \in RfRules :
          /\ rfRule' = <<rule>>
          /\ rfForm' = <<[fields |-> RfFields(rule.dst), proto |-> rule.proto]>>
     \/ \E proto \in RfProtocols \ RfPortless :
          rfRule' = <<>> /\ rfForm' = <<[fields |-> RfEmptyFields, proto |-> proto]>>

RfAddTarget ==
  /\ rfForm # <<>>
  /\ \E t \in RfTargets :
       /\ \A i \in DOMAIN rfForm[1].fields.chips : rfForm[1].fields.chips[i] # t
       /\ rfForm' = <<[rfForm[1] EXCEPT !.fields.chips = Append(@, t)]>>
  /\ UNCHANGED <<rfRule, rfSaved>>

\* The target's own ports are kept: it may be added again.
RfRemoveTarget ==
  /\ rfForm # <<>>
  /\ \E i \in DOMAIN rfForm[1].fields.chips :
       rfForm' = <<[rfForm[1] EXCEPT !.fields.chips = RemoveAt(@, i)]>>
  /\ UNCHANGED <<rfRule, rfSaved>>

RfTypePorts ==
  /\ rfForm # <<>> /\ rfForm[1].proto \notin RfPortless
  /\ \E spec \in RfTyped : rfForm' = <<[rfForm[1] EXCEPT !.fields.ports = spec]>>
  /\ UNCHANGED <<rfRule, rfSaved>>

\* A protocol without ports sets the field to "*".
RfChooseProtocol ==
  /\ rfForm # <<>>
  /\ \E proto \in RfProtocols :
       rfForm' = <<[rfForm[1] EXCEPT !.proto = proto,
                                     !.fields.ports = IF proto \in RfPortless THEN RfAll ELSE @]>>
  /\ UNCHANGED <<rfRule, rfSaved>>

RfSubmit ==
  /\ rfForm # <<>> /\ RfValid(rfForm[1])
  /\ rfSaved' = <<RfWritten(rfRule, rfForm[1])>> /\ rfForm' = <<>>
  /\ UNCHANGED rfRule

RfClose ==
  /\ rfForm # <<>> /\ rfForm' = <<>>
  /\ UNCHANGED <<rfRule, rfSaved>>

RfNext ==
  \/ RfOpen \/ RfAddTarget \/ RfRemoveTarget \/ RfTypePorts \/ RfChooseProtocol \/ RfSubmit \/ RfClose

RfSpec == RfInit /\ [][RfNext]_rfVars

-----------------------------------------------------------------------------
\* What a list of destinations lets through to a target.
RfReach(dst, t) ==
  LET all == UNION {dst[i].ports : i \in {j \in DOMAIN dst : dst[j].target = t}}
  IN  IF "*" \in all THEN RfAll ELSE all

\* "Destinations keep their individual ports unless you type one spec for all"
\* (RulesTab.tsx): after any sequence of edits the submitted rule reaches
\* exactly the targets of the form, each on the ports the field shows or, when
\* it is empty, on those the edited rule gave it, in however many entries.
FormKeepsAccess ==
  [][rfForm # <<>> /\ rfSaved' # rfSaved
     => LET f == rfForm[1].fields
            dst == rfSaved'[1]
        IN  /\ RfTargetsOf(dst) = {f.chips[i] : i \in DOMAIN f.chips}
            /\ \A t \in RfTargetsOf(dst) :
                 RfReach(dst, t) = IF f.ports # {} THEN f.ports ELSE RfReach(rfRule[1].dst, t)]_rfVars
=============================================================================
