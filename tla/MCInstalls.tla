----------------------------- MODULE MCInstalls -----------------------------
(***************************************************************************)
(* core loads by itself; sales depends on crm, crm and notes on core; notes *)
(* needs a mailer, which crm provides.  The second release raises versions, *)
(* the third lost notes from the disk.                                      *)
(***************************************************************************)
EXTENDS Installs

MCApps == {"core", "crm", "sales", "notes"}
MCDepends == [a \in MCApps |-> CASE a = "core" -> {} [] a = "sales" -> {"crm"}
                                 [] OTHER -> {"core"}]
MCUses == [a \in MCApps |-> IF a = "notes" THEN {"mailer"} ELSE {}]
MCProvides == [a \in MCApps |-> IF a = "crm" THEN {"mailer"} ELSE {}]
Release(present, v) == [compiled |-> MCApps, present |-> present,
                        version |-> [a \in MCApps |-> IF a = "core" THEN 1 ELSE v]]
MCReleases == {Release(MCApps, 1), Release(MCApps, 2), Release(MCApps \ {"notes"}, 2)}
MCEnvLists == {{}, {"crm"}}
=============================================================================
