---------------------------- MODULE MCPolicyCSV -----------------------------
(* Policies of up to MaxLines lines, from a collection of the forms that    *)
(* lines of a policy.csv take.                                             *)
EXTENDS PolicyCSV

CONSTANTS MaxLines,
          g1, g2,       \* UUIDs
          name          \* a word that is neither a UUID nor a kind

Words == {"g", g1, g2, name}

(* Lines with what is to be read from them: the groups they grant a role   *)
(* to, and whether they end within quotes when they begin outside, or      *)
(* inside.  The first kind has no quote, or one where none may be.         *)
Plain(s, ids) == [text |-> s, grants |-> ids, opens |-> FALSE, keeps |-> TRUE]
Closing(s, ids) == [Plain(s, ids) EXCEPT !.keeps = FALSE]
Opening(s) == [Closing(s, {}) EXCEPT !.opens = TRUE]

Forms == {
    Plain(<<"g", "comma", "blank", g1, "comma", "blank", name>>, {g1}),
    Plain(<<"blank", "g", "comma", g2, "blank", "comma", name>>, {g2}),
    Plain(<<"g", "comma", g1>>, {}),
    Plain(<<"g", "comma", name, "comma", name>>, {}),
    Plain(<<name, "comma", g1, "comma", name>>, {}),
    Plain(<<>>, {}),
    Plain(<<name, "quote", "comma", "quote", name>>, {}),
    Closing(<<"g", "comma", "blank", "quote", g1, "quote", "comma", "quote", name,
              "quote">>, {g1}),
    Closing(<<name, "quote", name, "comma", g2, "comma", name>>, {}),
    Closing(<<"g", "comma", "quote", g2, "quote", "blank", "comma", name>>, {}),
    Closing(<<g1, "quote", "comma", name>>, {}),
    Opening(<<name, "comma", "blank", "quote", name>>),
    Opening(<<name, "comma", "quote", name, "quote", "quote", name>>),
    Opening(<<"g", "comma", "quote">>)
}

Lined(s) == Append(s, "newline")

(* The scan reads the forms as they are annotated, also below an open quote. *)
ASSUME FormsAreUnderstood ==
    \A f \in Forms :
        LET line == Lined(f.text)
            below == <<"quote", "newline">> \o line
            q == Scan(line)
        IN  /\ f.opens = (q[Len(line)] = "quoted")
            /\ f.keeps = (Scan(below)[Len(below)] = "quoted")
            /\ f.grants = {id \in Id : Grants(line, q, 0, Len(line), id)}

Texts[n \in 0 .. MaxLines] ==
    IF n = 0 THEN {<<>>} ELSE {Lined(f.text) \o t : f \in Forms, t \in Texts[n - 1]}
AllPolicies == UNION {Texts[n] : n \in 0 .. MaxLines}
=============================================================================
