------------------------------ MODULE Targeting ------------------------------
(***************************************************************************)
(* internal/campaign/service.go: which active campaigns a bid request      *)
(* matches.  A rule has a type and a value, and parses says whether its    *)
(* JSON is one of that type.  A device is what the rules can see of it:    *)
(*   ip  every prefix of the IP address, {} when there is no address;      *)
(*   ua  every string, in whatever case, whose lower-cased form stands in  *)
(*       the lower-cased User-Agent, {} when there is none.                *)
(* strings.HasPrefix, and strings.Contains of two lower-cased strings, are *)
(* then set membership.  A request without a device has both sets empty.   *)
(***************************************************************************)
EXTENDS FiniteSets

MatchGeo(prefix, device) == prefix \in device.ip

MatchDevice(substring, device) == substring \in device.ua

\* Mutant of MatchSegment: a user without known segments matches.
MatchSegmentOpen(wanted, segments) ==
  segments = {} \/ wanted \cap segments # {}

MatchSegment(wanted, segments) == wanted \cap segments # {}

MatchesRule(rule, device, segments) ==
  /\ rule.parses
  /\ \/ rule.type = "geo"     /\ MatchGeo(rule.value, device)
     \/ rule.type = "segment" /\ MatchSegment(rule.value, segments)
     \/ rule.type = "device"  /\ MatchDevice(rule.value, device)

\* No rule at all matches everybody; an unknown rule type matches nobody.
MatchesTargeting(campaign, device, segments) ==
  \A rule \in campaign.rules : MatchesRule(rule, device, segments)

EvaluateTargeting(active, device, segments) ==
  {c \in active : MatchesTargeting(c, device, segments)}
==============================================================================
