----------------------------- MODULE MCDomains -----------------------------
(***************************************************************************)
(* Apps and documents for checking Domains.  hr and hrPay are compiled in; *)
(* hrLeave and billing are dynamic, billing depends on hrLeave and sorts   *)
(* before it.  A root field is the camel-cased app name followed by the    *)
(* query's, so app hr with a query payRuns defines the field that app      *)
(* hrPay defines with a query runs.                                        *)
(***************************************************************************)
EXTENDS DomainsView

Doc(app, fields, cols, entries, disable, depends) ==
    [app |-> app, content |-> [fields |-> fields, cols |-> cols, entries |-> entries,
                               disable |-> disable, depends |-> depends]]

DaysNumber == <<"days", "number">>
DaysInt == <<"days", "int">>
Approver == <<"approver", "text">>
BadgeText == <<"badge", "text">>
BadgeInt == <<"badge", "int">>

Library == [
    \* code
    hrV1 |-> Doc("hr", {"hrStaff"}, {}, {"hr-read"}, {}, {}),
    hrV2 |-> Doc("hr", {"hrStaff", "hrTeams"}, {BadgeInt}, {"hr-read"}, {}, {}),
    payV1 |-> Doc("hrPay", {"hrPaySlips"}, {}, {"pay-read"}, {}, {}),
    payV2 |-> Doc("hrPay", {"hrPaySlips", "hrPayRuns"}, {}, {"pay-read"}, {}, {}),
    \* layers on hr; the second defines a field of hrLeave, the third one of payV2
    hrBadge |-> Doc("hr", {"hrBadge"}, {BadgeText}, {"hr-badge"}, {}, {}),
    hrLeaves |-> Doc("hr", {"hrBadge", "hrLeaveList"}, {BadgeText}, {"hr-leaves"}, {}, {}),
    hrPayruns |-> Doc("hr", {"hrPayRuns"}, {}, {"hr-runs"}, {}, {}),
    \* dynamic apps
    leave |-> Doc("hrLeave", {"hrLeaveList"}, {DaysNumber}, {"leave-member"}, {}, {"hr"}),
    approval |-> Doc("hrLeave", {"hrLeaveList", "hrLeaveApprove"}, {DaysNumber, Approver},
                     {"leave-admin"}, {}, {}),
    retyped |-> Doc("hrLeave", {"hrLeaveList"}, {DaysInt}, {"leave-member"}, {}, {}),
    strict |-> Doc("hrLeave", {"hrLeaveList"}, {DaysNumber}, {"leave-member"}, {"hr-read"}, {}),
    billing |-> Doc("billing", {"billingDue"}, {}, {"billing-all"}, {}, {"hrLeave"})]

MCDocApp == [d \in Docs \cup CodeDocs |-> Library[d].app]
MCContent == [d \in Docs \cup CodeDocs |-> Library[d].content]
MCFields == UNION {MCContent[d].fields : d \in Docs \cup CodeDocs}
MCColumns == UNION {MCContent[d].cols : d \in Docs \cup CodeDocs}
MCEntries == UNION {MCContent[d].entries \cup MCContent[d].disable : d \in Docs \cup CodeDocs}

OneCompiled == <<"hr">>
TwoCompiled == <<"hr", "hrPay">>
NoneDynamic == <<>>
OneDynamic == <<"hrLeave">>
TwoDynamic == <<"billing", "hrLeave">>
NoBundles == {}
\* what Export prints on a platform where billing and hrLeave have layers
Exported == {<<[app |-> "billing", layer |-> "billing"], [app |-> "hrLeave", layer |-> "leave"]>>}
Backup == {<<[app |-> "hr", layer |-> "hrBadge"], [app |-> "hrLeave", layer |-> "leave"]>>,
           <<[app |-> "hr", layer |-> "hrLeaves"], [app |-> "hrLeave", layer |-> "leave"]>>}
=============================================================================
