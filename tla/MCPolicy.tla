------------------------------ MODULE MCPolicy ------------------------------
(* A small instance of the policy: a dataset with adjacent, separated and unreadable rows, *)
(* one access rule to begin with, a black-listed address, a feed that goes wrong in two   *)
(* ways.  The two countries and ZZ together have more rows than a rule may pick.          *)
EXTENDS Policy

Row(f, lo, hi, cc) == [fam |-> f, lo |-> lo, hi |-> hi, cc |-> cc]
OneMonth ==
    << << Row("v4", 3, 3, "ZZ"), Row("v4", 0, 0, "XX"), Row("v4", 1, 1, "XX"), Row("v4", 2, 2, "YY"),
          Row("v6", 0, 0, "YY"), Row("v6", 2, 3, ""), Row("v6", 3, 2, "XX") >> >>
Lists == {{"XX", "ZZ"}, {"XX", "YY", "ZZ"}}

Four(n) == [fam |-> "v4", n |-> n]
Deny == [action |-> "deny", cond |-> [field |-> "country", val |-> {"XX", "ZZ"}]]
Allow == [action |-> "allow", cond |-> [field |-> "ip", val |-> {Four(0)}]]
Challenge == [action |-> "challenge", cond |-> [field |-> "crawler", val |-> FALSE]]
BackDoor == [action |-> "allow", cond |-> [field |-> "country", val |-> {"XX", "ZZ"}]]
SomeDrafts == {Deny, Allow, Challenge, BackDoor}
OneRule == {<<Deny>>}
SomeListed == {<<Four(1), "black">>}
InBinary == {Four(2)}
Answers == {{}, {{Four(2)}, {Four(0), Four(1), Four(3)}}, {{Four(2)}, {Four(3)}}}
=============================================================================
