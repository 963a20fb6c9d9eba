----------------------------- MODULE MCRecords -----------------------------
(***************************************************************************)
(* A task model for checking Records.  "title" is required, "state" has a   *)
(* default and three values, "owner" holds a user and is readonly.  The     *)
(* texts are those values, with "Ann" and "ann" equal but for their case.   *)
(***************************************************************************)
EXTENDS Records

CONSTANTS ann, seeder, job

MCFields == {"title", "state", "owner"}
MCTexts == {"", "fix", "open", "done", "ann", "Ann"}
MCFold == [t \in MCTexts \cup {Nil} |-> IF t = "Ann" THEN "ann" ELSE IF t = Nil THEN "" ELSE t]
MCHolding == {<<t, s>> \in MCTexts \X MCTexts : s = "" \/ MCFold[t] = MCFold[s]}
\* a typo away
MCMatching == {<<t, s>> \in MCHolding : s # ""} \cup {<<"done", "open">>}
MCRank == [t \in MCTexts \cup {Nil} |->
              CASE t = "done" -> 2 [] t = "open" -> 1 [] OTHER -> 0]
MCResource == <<"tasks", "Task">>
MCRequired == {"title"}
MCReadonly == {"owner"}
MCDefault == [f \in MCFields |-> IF f = "state" THEN "open" ELSE Nil]
MCValid == [f \in MCFields |-> CASE f = "state" -> {"", "open", "done"}
                                 [] f = "owner" -> {"", "ann", "Ann"}
                                 [] OTHER -> {"", "fix"}]

\* no hook, one that sets the owner and takes the title out, one that writes what no
\* task may have, and one that sets the state to nil
Sets(w) == [sets |-> w, drops |-> {}]
MCHooks == {Sets(<< >>), [sets |-> [owner |-> "ann"], drops |-> {"title"}],
            Sets([state |-> "fix"]), Sets([state |-> Nil])}
NoHooks == {Sets(<< >>)}

UserOfClients == [c \in Callers |-> IF c = ann THEN "ann" ELSE Internal]
UserOfReaders == [c \in Callers |-> IF c = ann THEN "ann" ELSE Internal]
MCRolesOf == [u \in {"ann", Internal} |-> IF u = "ann" THEN {"member"} ELSE {}]

New == [title |-> "fix", state |-> "open", owner |-> "ann"]
Changes == {[state |-> "done"], [title |-> "fix", owner |-> "Ann"]}
CreateOne == {[title |-> "fix", state |-> ""]}
Owned(o, s) == [title |-> "fix", owner |-> o, state |-> s]
CreateOwned ==
    {Owned("ann", "open"), Owned("Ann", "open"), Owned("ann", "done"), Owned("", "done")}
NoChanges == {<< >>}

Policy(name, effect, actions, fields, domain, priority) ==
    [name |-> name, role |-> "member", effect |-> effect, kind |-> "model",
     resource |-> MCResource, actions |-> actions, fields |-> fields,
     domain |-> domain, priority |-> priority]

Cond(f, op, v) == [field |-> f, op |-> op, value |-> v]
Own == {Cond("owner", "=", {UserId})}
Open == {Cond("state", "in", {"open"})}

MCIndexings == {[enabled |-> TRUE, fields |-> {"title", "state"}],
                [enabled |-> TRUE, fields |-> {"title"}],
                [enabled |-> FALSE, fields |-> {"title"}]}
NotIndexing == {[enabled |-> FALSE, fields |-> {"title"}]}
MCQueries == {<< >>,
              <<[op |-> "|"], Cond("state", "=", {"done"}), Cond("owner", "is not set", {""})>>,
              <<[op |-> "!"], Cond("title", "like%", {"fix"}), Cond("owner", "!=", {"ann"})>>}

MCSearches == {"", "ann"}

\* everybody reads and writes everything; only open tasks are deleted; owners and
\* readers of open tasks, with an administrator's lock and fields of their own
FullAccess == {Policy("all", "allow", {}, {}, {}, 0)}
DropOpen == {Policy("write", "allow", {"create", "read", "update"}, {}, {}, 0),
             Policy("drop", "allow", {"delete"}, {}, Open, 0)}
OwnersAndOpen == FullAccess \cup {
    Policy("own", "allow", {"read", "create"}, {}, Own, 1),
    Policy("open", "allow", {"read"}, {}, Open, 2),
    Policy("lock", "deny", {"read"}, {}, Open, 2),
    Policy("title-only", "allow", {"read"}, {"title"}, {}, 3),
    Policy("no-owner", "deny", {"read"}, {"owner"}, {}, 4)}
Tied == {Policy("lock", "deny", {"read"}, {}, Open, 0)}
=============================================================================
