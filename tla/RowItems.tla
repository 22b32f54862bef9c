------------------------------ MODULE RowItems ------------------------------
(***************************************************************************)
(* The items of an order on their way through a row: pull_dsco_orders      *)
(* writes a token "sku(quantity)" per line into the text[] column mskus    *)
(* (infra/store), PostgreSQL prints the array its own way, pg_text_array.go *)
(* reads that, and multi_ban decides from the tokens whether the order has *)
(* several lines or units (util.go).  A string is a sequence of one-letter *)
(* strings.                                                                *)
(***************************************************************************)
EXTENDS Naturals, Sequences

CONSTANTS
    Letters,    \* letters of a SKU
    SkuLength,  \* letters a SKU has at most
    MaxLines    \* lines an order has at most
ASSUME RowItemsAssumption == SkuLength \in Nat \ {0} /\ MaxLines \in Nat

Quote  == "\""
Escape == "\\"
Space  == " "

VARIABLES order, column, tokens
(* order: the lines, [sku, qty]; column: what PostgreSQL prints of mskus;  *)
(* tokens: what the tasks read.                                            *)

SkuNames == {s \in UNION {[1..n -> Letters] : n \in 1..SkuLength} :
                s[1] # Space /\ s[Len(s)] # Space}
Line     == [sku : SkuNames \cup {<<>>}, qty : 1..2]
Orders0  == UNION {[1..n -> Line] : n \in 0..MaxLines}

ItemsInit == order \in Orders0 /\ column = <<>> /\ tokens = <<>>

-----------------------------------------------------------------------------
(* Writing *)

Digit(n) == IF n = 1 THEN "1" ELSE "2"
Token(line) == line.sku \o <<"(", Digit(line.qty), ")">>

\* The tokens of the lines that have a SKU (task_pull_dsco_orders.go).
TokensOf(lines) ==
    LET T[i \in 0..Len(lines)] == IF i = 0 THEN <<>>
                                  ELSE IF lines[i].sku = <<>> THEN T[i - 1]
                                  ELSE Append(T[i - 1], Token(lines[i]))
    IN T[Len(lines)]

\* s with a backslash before every letter of `what`.
Escaped(s, what) ==
    LET E[i \in 0..Len(s)] == IF i = 0 THEN <<>>
                              ELSE E[i - 1] \o (IF s[i] \in what THEN <<Escape>> ELSE <<>>) \o <<s[i]>>
    IN E[Len(s)]

Quoted(s) == <<Quote>> \o Escaped(s, {Quote, Escape}) \o <<Quote>>

\* The elements, as text, in braces and with commas.
Braced(parts) ==
    LET B[i \in 0..Len(parts)] == IF i = 0 THEN <<>>
                                  ELSE B[i - 1] \o (IF i = 1 THEN <<>> ELSE <<",">>) \o parts[i]
    IN <<"{">> \o B[Len(parts)] \o <<"}">>

\* toPGTextArrayLiteral quotes every element.
Literal(items) == Braced([i \in 1..Len(items) |-> Quoted(items[i])])

\* PostgreSQL quotes the elements it must.
Plain(s) == s # <<>> /\ \A i \in 1..Len(s) : s[i] \notin {"{", "}", ",", Quote, Escape, Space}
Printed(items) == Braced([i \in 1..Len(items) |->
                            IF Plain(items[i]) THEN items[i] ELSE Quoted(items[i])])

-----------------------------------------------------------------------------
(* Reading *)

(* The loop of parsePGTextArrayLiteral is at a letter between two elements, *)
(* in a quoted one, behind a backslash in one, or in a plain one; item is  *)
(* the element so far, items those before it.  PostgreSQL prints no NULL,  *)
(* no blank, no backslash and no end of the text where the code would trim, *)
(* unescape or fail, so those are left out.  Space stands for white space. *)
Between(items) == [at |-> "between", item |-> <<>>, items |-> items]

Read(st, c) ==
    CASE st.at = "between" ->
            IF c \in {",", Space} THEN st
            ELSE IF c = Quote THEN [st EXCEPT !.at = "quoted"]
            ELSE [st EXCEPT !.at = "plain", !.item = <<c>>]
      [] st.at = "quoted" ->
            IF c = Escape THEN [st EXCEPT !.at = "escaped"]
            ELSE IF c = Quote THEN Between(Append(st.items, st.item))
            ELSE [st EXCEPT !.item = Append(@, c)]
      [] st.at = "escaped" -> [st EXCEPT !.at = "quoted", !.item = Append(@, c)]
      [] st.at = "plain" ->
            IF c = "," THEN Between(Append(st.items, st.item))
            ELSE [st EXCEPT !.item = Append(@, c)]

Scan(s, st) == LET R[i \in 0..Len(s)] == IF i = 0 THEN st ELSE Read(R[i - 1], s[i])
               IN R[Len(s)]

\* parsePGTextArrayLiteral: what is between the braces.
Parsed(text) == LET st == Scan(SubSeq(text, 2, Len(text) - 1), Between(<<>>))
                IN IF st.at = "between" THEN st.items ELSE Append(st.items, st.item)

\* The last position of a letter, or 0.
LastIndex(s, c) == LET at == {i \in 1..Len(s) : s[i] = c}
                   IN IF at = {} THEN 0 ELSE CHOOSE i \in at : \A j \in at : j <= i
FirstIndex(s, c) == LET at == {i \in 1..Len(s) : s[i] = c}
                    IN IF at = {} THEN 0 ELSE CHOOSE i \in at : \A j \in at : i <= j

QtyAfter(s, i) == IF i > 1 /\ i < Len(s) /\ SubSeq(s, i + 1, Len(s) - 1) = <<"2">> THEN 2 ELSE 1

\* Mutant: the quantity starts at the first bracket.
QtyOfFirst(s) == IF s = <<>> \/ s[Len(s)] # ")" THEN 1 ELSE QtyAfter(s, FirstIndex(s, "("))

\* parseQtyFromMSKUToken: what is no quantity counts as 1.
QtyOf(s) == IF s = <<>> \/ s[Len(s)] # ")" THEN 1 ELSE QtyAfter(s, LastIndex(s, "("))

\* detectMultiOrderByMSKUs: two items that are not blank, or one of several units.
IsMulti(items) ==
    LET lines == {i \in 1..Len(items) : items[i] # <<>>}
    IN (\E i, j \in lines : i # j) \/ \E i \in lines : QtyOf(items[i]) > 1

-----------------------------------------------------------------------------
\* Upsert: PostgreSQL reads the literal, and prints it when the row is read.
WriteRow == /\ column = <<>>
            /\ column' = Printed(Parsed(Literal(TokensOf(order))))
            /\ UNCHANGED <<order, tokens>>

\* PGTextArray.Scan
ReadRow == /\ column # <<>> /\ tokens = <<>> /\ TokensOf(order) # <<>>
           /\ tokens' = Parsed(column)
           /\ UNCHANGED <<order, column>>

ItemsNext == WriteRow \/ ReadRow

ItemsVars == <<order, column, tokens>>
ItemsSpec == ItemsInit /\ [][ItemsNext]_ItemsVars

-----------------------------------------------------------------------------
(* Property *)

\* Whatever letters a SKU has (brackets, digits, commas, quotes, blanks or
\* backslashes), the tasks read the tokens the pull wrote, and multi_ban
\* sees an order of several lines or units, as far as its lines have a SKU.
BanSeesOrder ==
    tokens # <<>> =>
        LET named == {i \in 1..Len(order) : order[i].sku # <<>>}
        IN /\ tokens = TokensOf(order)
           /\ IsMulti(tokens) <=> (\E i, j \in named : i # j) \/ \E i \in named : order[i].qty > 1
=============================================================================
