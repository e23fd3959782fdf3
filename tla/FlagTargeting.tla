--------------------------- MODULE FlagTargeting ---------------------------
(***************************************************************************)
(* The pure part of flag evaluation: one targeting rule against one        *)
(* evaluation context (internal/flags/targeting.go, evaluator.go).         *)
(*                                                                         *)
(* An attribute value is a sequence of characters: the digits 0..9 stand   *)
(* for themselves, any other number for a character that is not a digit,   *)
(* so that the numeric operators can meet a value they cannot parse.       *)
(***************************************************************************)
EXTENDS Integers, Sequences, SequencesExt

CONSTANTS NoUser,       \* the empty user id
          NoSegment,    \* a segment rule whose segment_id is nil
          Bucket        \* a user's bucket 0..99 under the flag's key

Digits == 0 .. 9

\* strconv.ParseFloat on the values the model has: unsigned integers.
Parses(v) == v # <<>> /\ \A i \in DOMAIN v : v[i] \in Digits
Number(v) == FoldLeft(LAMBDA n, d : 10 * n + d, 0, v)

\* -1, 0 or 1; 0 also when either side is no number.
compareNumeric(a, b) ==
  IF ~Parses(a) \/ ~Parses(b) \/ Number(a) = Number(b) THEN 0
  ELSE IF Number(a) < Number(b) THEN -1 ELSE 1

Within(part, whole) ==
  \E i \in 1 .. Len(whole) + 1 : \E j \in (i - 1) .. Len(whole) :
    SubSeq(whole, i, j) = part

\* One comparison; c = [attribute, operator, value, list], `list' the comma
\* separated alternatives of in and not_in.  A missing attribute never matches.
evaluateAttributeRule(c, attrs) ==
  /\ c.attribute \in DOMAIN attrs
  /\ LET v == attrs[c.attribute] IN
     \/ c.operator = "eq"          /\ v = c.value
     \/ c.operator = "neq"         /\ v # c.value
     \/ c.operator = "contains"    /\ Within(c.value, v)
     \/ c.operator = "starts_with" /\ IsPrefix(c.value, v)
     \/ c.operator = "ends_with"   /\ IsSuffix(c.value, v)
     \/ c.operator = "in"          /\ v \in c.list
     \/ c.operator = "not_in"      /\ v \notin c.list
     \/ c.operator = "gt"          /\ compareNumeric(v, c.value) > 0
     \/ c.operator = "gte"         /\ compareNumeric(v, c.value) >= 0
     \/ c.operator = "lt"          /\ compareNumeric(v, c.value) < 0
     \/ c.operator = "lte"         /\ compareNumeric(v, c.value) <= 0

\* All conditions under AND, some condition under OR, and an operator that is
\* neither matches nothing; no condition at all matches under AND only.
evaluateConditions(conds, op, attrs) ==
  \/ op = "AND" /\ \A i \in DOMAIN conds : evaluateAttributeRule(conds[i], attrs)
  \/ op = "OR"  /\ \E i \in DOMAIN conds : evaluateAttributeRule(conds[i], attrs)

evaluatePercentageRule(pct, user) == user # NoUser /\ Bucket[user] < pct

evaluateUserTargetRule(targets, user) == user # NoUser /\ user \in targets

\* Both ends of the window are inside it.
evaluateScheduleRule(from, to, now) == from <= now /\ now <= to

\* evaluateRule; seg is the segment the evaluator loaded, or NoSegment when
\* loading failed (a rule that cannot be evaluated is skipped).
evaluateRule(rule, ctx, seg) ==
  \/ rule.type = "percentage"  /\ evaluatePercentageRule(rule.pct, ctx.user)
  \/ rule.type = "user_target" /\ evaluateUserTargetRule(rule.targets, ctx.user)
  \/ rule.type = "attribute"   /\ evaluateAttributeRule(rule.cond, ctx.attrs)
  \/ rule.type = "schedule"    /\ evaluateScheduleRule(rule.from, rule.to, ctx.now)
  \/ rule.type = "compound"    /\ evaluateConditions(rule.conds, rule.combine, ctx.attrs)
  \/ rule.type = "segment"     /\ seg # NoSegment
                               /\ evaluateConditions(seg.conds, seg.combine, ctx.attrs)

\* TargetingRule.Validate: what CreateRule and UpdateRule accept.  A compound
\* rule is not among the accepted types.
ValidRule(rule) ==
  \/ rule.type = "percentage"  /\ rule.pct \in 0 .. 100
  \/ rule.type = "user_target" /\ rule.targets # {}
  \/ rule.type = "attribute"
  \/ rule.type = "schedule"
  \/ rule.type = "segment"     /\ rule.segment
=============================================================================
