--------------------------- MODULE WorkbenchProofs --------------------------
(***************************************************************************)
(* Theorems about Workbench, for any columns, values, caps and numbers of  *)
(* rows, and any entries of the connection editor: what readRows keeps     *)
(* and how it shows it, and what becomes of the form in the core.          *)
(***************************************************************************)
EXTENDS Workbench, FiniteSetTheorems, SequenceTheorems, NaturalsInduction,
        WellFoundedInduction, TLAPS

-----------------------------------------------------------------------------
(* Values.                                                                 *)

\* What becomes of a value: a cell, of a form the grid knows, in base64 only
\* where the column is of bytes, or of booleans, or not known yet.
LEMMA Conversion ==
  ASSUME NEW v, NEW declared \in Kinds
  PROVE  \E f \in Forms, k \in Kinds :
           /\ ConvertValue(v, declared)[1] \in {Null, Cell(f, v)}
           /\ ConvertValue(v, declared)[2] = k
           /\ f = "base64" => \/ declared \in {"bytes", "bool"}
                              \/ declared = "unknown" /\ k = "bytes"
<1> DEFINE Told(f, k) == ConvertValue(v, declared) = <<Cell(f, v), k>>
<1>1. ASSUME NEW f \in Forms, NEW k \in Kinds, Told(f, k),
             f = "base64" => \/ declared \in {"bytes", "bool"}
                             \/ declared = "unknown" /\ k = "bytes"
      PROVE  \E g \in Forms, l \in Kinds :
               /\ ConvertValue(v, declared)[1] \in {Null, Cell(g, v)}
               /\ ConvertValue(v, declared)[2] = l
               /\ g = "base64" => \/ declared \in {"bytes", "bool"}
                                  \/ declared = "unknown" /\ l = "bytes"
  <2>1. ConvertValue(v, declared)[1] = Cell(f, v) /\ ConvertValue(v, declared)[2] = k
    BY <1>1
  <2> QED BY <1>1, <2>1
<1>2. CASE v.sort = "nil"
  <2>1. ConvertValue(v, declared) = <<Null, declared>>
    BY <1>2 DEF ConvertValue
  <2>2. ConvertValue(v, declared)[1] = Null /\ ConvertValue(v, declared)[2] = declared
    BY <2>1
  <2>3. "null" \in Forms
    BY DEF Forms
  <2> QED BY <2>2, <2>3
<1>3. CASE v.sort = "bool"
  <2>1. Told("text", "bool")
    BY <1>3 DEF ConvertValue
  <2> QED BY <1>1, <2>1 DEF Forms, Kinds
<1>4. CASE v.sort = "bytes"
  <2>1. ConvertValue(v, declared) = ConvertBytes(v, declared)
    BY <1>4 DEF ConvertValue
  <2>2. CASE declared = "bytes"
    <3>1. Told("base64", "bytes")
      BY <2>1, <2>2 DEF ConvertBytes
    <3> QED BY <1>1, <2>2, <3>1 DEF Forms, Kinds
  <2>3. CASE declared \in {"number", "string", "json", "uuid", "date", "time", "datetime"}
    <3>1. Told("text", declared)
      BY <2>1, <2>3 DEF ConvertBytes
    <3> QED BY <1>1, <3>1 DEF Forms
  <2>4. CASE declared \in {"bool", "unknown"}
    <3>1. Told("text", "string") \/ Told("base64", "bytes")
      BY <2>1, <2>4 DEF ConvertBytes
    <3>2. CASE Told("text", "string")
      BY <1>1, <3>2 DEF Forms, Kinds
    <3>3. CASE Told("base64", "bytes")
      BY <1>1, <2>4, <3>3 DEF Forms, Kinds
    <3> QED BY <3>1, <3>2, <3>3
  <2> QED BY <2>2, <2>3, <2>4 DEF Kinds
<1>5. CASE v.sort = "time"
  <2>1. Told(FormatTime(declared), declared)
    BY <1>5 DEF ConvertValue
  <2>2. FormatTime(declared) \in Forms /\ FormatTime(declared) # "base64"
    BY DEF FormatTime, Forms
  <2> QED BY <1>1, <2>1, <2>2
<1>6. CASE v.sort = "int"
  <2>1. Told("digits", "number")
    BY <1>6 DEF ConvertValue
  <2> QED BY <1>1, <2>1 DEF Forms, Kinds
<1>7. CASE v.sort = "float"
  <2>1. Told(FormatFloat(v), "number")
    BY <1>7 DEF ConvertValue
  <2>2. FormatFloat(v) \in Forms /\ FormatFloat(v) # "base64"
    BY DEF FormatFloat, Forms
  <2> QED BY <1>1, <2>1, <2>2 DEF Kinds
<1>8. CASE v.sort \notin {"nil", "bool", "bytes", "time", "int", "float"}
  <2>1. Told("text", declared)
    BY <1>8 DEF ConvertValue
  <2> QED BY <1>1, <2>1 DEF Forms
<1> QED BY <1>2, <1>3, <1>4, <1>5, <1>6, <1>7, <1>8

\* Every name of a type is one of a kind.
LEMMA KindKnown == \A type : KindForDatabaseType(type) \in Kinds
  BY DEF KindForDatabaseType, Kinds

-----------------------------------------------------------------------------
(* The names of columns.                                                   *)

\* Earlier columns of the same name are fewer the earlier the column.
LEMMA CountsApart ==
  ASSUME NEW n \in Nat, NEW own, NEW i \in 1..n, NEW j \in 1..n, i < j, own[i] = own[j]
  PROVE  LET before(m) == {k \in 1..(m - 1) : own[k] = own[m]}
         IN  /\ Cardinality(before(i)) \in Nat /\ Cardinality(before(j)) \in Nat
             /\ Cardinality(before(i)) < Cardinality(before(j))
<1> DEFINE before(m) == {k \in 1..(m - 1) : own[k] = own[m]}
<1>1. \A m \in 1..n : IsFiniteSet(before(m)) /\ Cardinality(before(m)) \in Nat
  <2> TAKE m \in 1..n
  <2>1. IsFiniteSet(1..(m - 1))
    BY FS_Interval
  <2> QED BY <2>1, FS_Subset, FS_CardinalityType
<1>2. before(i) \cup {i} \subseteq before(j) /\ i \notin before(i)
  OBVIOUS
<1>3. before(i) \subseteq before(j) /\ before(i) # before(j)
  BY <1>2
<1> HIDE DEF before
<1>4. Cardinality(before(i)) <= Cardinality(before(j))
      /\ Cardinality(before(i)) # Cardinality(before(j))
  BY <1>1, <1>3, FS_Subset
<1>5. Cardinality(before(i)) < Cardinality(before(j))
  BY <1>1, <1>4
<1> QED BY <1>1, <1>5 DEF before

LEMMA TwoParts == ASSUME NEW x, NEW m PROVE Append(<<x>>, m) = <<x, m>>
<1> DEFINE S == {x, m}
<1>1. x \in S /\ m \in S
  OBVIOUS
<1> HIDE DEF S
<1>2. <<x>> \in Seq(S) /\ Len(<<x>>) = 1
  BY <1>1
<1>3. Append(<<x>>, m) \in Seq(S) /\ Len(Append(<<x>>, m)) = 2
      /\ Append(<<x>>, m)[1] = x /\ Append(<<x>>, m)[2] = m
  BY <1>1, <1>2
<1>4. <<x, m>> \in Seq(S) /\ Len(<<x, m>>) = 2 /\ <<x, m>>[1] = x /\ <<x, m>>[2] = m
  BY <1>1
<1>5. \A i \in 1..2 : Append(<<x>>, m)[i] = <<x, m>>[i]
  BY <1>3, <1>4
<1> QED BY <1>3, <1>4, <1>5, SeqEqual

\* The names deduplicateNames gives, where every name is of one part.
LEMMA GivenApart ==
  ASSUME NEW n \in Nat, NEW names, DOMAIN names = 1..n,
         \A i \in 1..n : \E x : names[i] = <<x>>
  PROVE  \A i, j \in 1..n : i # j => DeduplicateNames(names)[i] # DeduplicateNames(names)[j]
<1> DEFINE own == [i \in DOMAIN names |->
                     IF names[i] = <<"">> THEN <<"column" \o ToString(i)>> ELSE names[i]]
           count(i) == Cardinality({k \in 1..(i - 1) : own[k] = own[i]})
           given(i) == IF count(i) = 0 THEN own[i] ELSE Append(own[i], count(i) + 1)
<1>1. \A i \in 1..n : DeduplicateNames(names)[i] = given(i)
  BY DEF DeduplicateNames
<1>2. \A i \in 1..n : \E x : own[i] = <<x>>
  BY Zenon
<1> HIDE DEF own
<1>3. \A i, j \in 1..n : i < j /\ own[i] = own[j] => count(i) < count(j)
  BY CountsApart
<1>4. \A i \in 1..n : count(i) \in Nat
  <2> TAKE i \in 1..n
  <2>1. IsFiniteSet(1..(i - 1))
    BY FS_Interval
  <2>2. IsFiniteSet({k \in 1..(i - 1) : own[k] = own[i]})
    BY <2>1, FS_Subset
  <2> QED BY <2>2, FS_CardinalityType
<1> HIDE DEF count
<1>5. ASSUME NEW i \in 1..n, NEW j \in 1..n, i < j PROVE given(i) # given(j)
  <2>1. PICK x, y : own[i] = <<x>> /\ own[j] = <<y>>
    BY <1>2
  <2>2. given(i) = IF count(i) = 0 THEN <<x>> ELSE <<x, count(i) + 1>>
    BY <2>1, TwoParts
  <2>3. given(j) = IF count(j) = 0 THEN <<y>> ELSE <<y, count(j) + 1>>
    BY <2>1, TwoParts
  <2>4. x = y => count(i) < count(j)
    BY <1>3, <1>5, <2>1
  <2>5. count(i) \in Nat /\ count(j) \in Nat
    BY <1>4
  <2> HIDE DEF given
  <2> QED BY <2>2, <2>3, <2>4, <2>5
<1>6. ASSUME NEW i \in 1..n, NEW j \in 1..n, i # j PROVE given(i) # given(j)
  <2> HIDE DEF given
  <2>1. i < j \/ j < i
    BY <1>6
  <2> QED BY <2>1, <1>5
<1> QED BY <1>1, <1>6

-----------------------------------------------------------------------------
(* A result set.                                                           *)

\* The first row is not read yet.
LEMMA ResultBegins == ResultInit => ResultInv
<1> SUFFICES ASSUME ResultInit PROVE ResultInv
  OBVIOUS
<1> DEFINE names == [i \in DOMAIN heading |-> heading[i].name]
<1>1. /\ options \in Limits /\ heading \in Headings /\ pulled = <<>> /\ rows = <<>>
      /\ truncated = FALSE /\ reading = "reading"
      /\ columns = [i \in DOMAIN heading |->
                       [name |-> DeduplicateNames(names)[i],
                        kind |-> KindForDatabaseType(heading[i].type)]]
  BY DEF ResultInit
<1>2. ResultTypeOK
  <2>1. pulled \in Seq(ServerRows) /\ rows \in Seq([DOMAIN heading -> [form : Forms, of : Contents]])
    BY <1>1
  <2>2. \A i \in DOMAIN columns : DOMAIN columns[i] = {"name", "kind"} /\ columns[i].kind \in Kinds
    BY <1>1, KindKnown
  <2>3. options \in Int /\ DOMAIN columns = DOMAIN heading /\ truncated \in BOOLEAN
        /\ reading \in {"reading", "read", "failed"}
    BY <1>1, CapAssumption
  <2> QED BY <2>1, <2>2, <2>3 DEF ResultTypeOK
<1>3. ReadingOn /\ BinaryStandsInBytes
  BY <1>1 DEF ReadingOn, BinaryStandsInBytes
<1>4. CapKept
  BY <1>1, CapAssumption DEF CapKept, MaxRows
<1>5. NamesTellColumnsApart
  <2>1. SUFFICES ASSUME \A i \in DOMAIN heading : Len(heading[i].name) = 1
                 PROVE  \A i, j \in DOMAIN columns : i # j => columns[i].name # columns[j].name
    BY DEF NamesTellColumnsApart
  <2>2. Len(heading) \in Nat /\ DOMAIN heading = 1..Len(heading)
    BY <1>1, HeadingsAssumption DEF IsSequence
  <2>3. \A i \in DOMAIN heading : names[i] = heading[i].name
    OBVIOUS
  <2>4. \A i \in 1..Len(heading) : \E x : names[i] = <<x>>
    <3> TAKE i \in 1..Len(heading)
    <3>1. IsSequence(names[i]) /\ Len(names[i]) = 1
      BY <1>1, <2>1, <2>2, HeadingsAssumption
    <3>2. names[i] = <<names[i][1]>>
      BY <3>1 DEF IsSequence
    <3> QED BY <3>2
  <2>5. DOMAIN names = 1..Len(heading)
    BY <2>2
  <2> HIDE DEF names
  <2>6. \A i, j \in 1..Len(heading) :
          i # j => DeduplicateNames(names)[i] # DeduplicateNames(names)[j]
    BY <2>2, <2>4, <2>5, GivenApart
  <2> QED BY <1>1, <2>2, <2>6
<1> QED BY <1>2, <1>3, <1>4, <1>5 DEF ResultInv

\* A row is kept.
LEMMA KeepKeeps ==
  ASSUME ResultInv, NEW row \in ServerRows, RowRead(row) PROVE ResultInv'
<1> DEFINE got == [i \in DOMAIN row |-> ConvertValue(row[i], columns[i].kind)]
           cells == [i \in DOMAIN row |-> got[i][1]]
           Known(i) == columns[i].kind = "unknown" /\ got[i][1] # Null
<1>1. /\ reading = "reading" /\ UNCHANGED <<options, heading, truncated, reading>>
      /\ MaxRows(options) < 0 \/ Len(rows) < MaxRows(options)
      /\ pulled' = Append(pulled, row)
  BY DEF RowRead, Keep
<1>2. rows' = Append(rows, cells)
  BY DEF RowRead, Keep
<1>3. columns' = [i \in DOMAIN columns |->
                    IF Known(i) THEN [columns[i] EXCEPT !.kind = got[i][2]] ELSE columns[i]]
  BY DEF RowRead, Keep
<1>4. DOMAIN row = DOMAIN heading /\ \A i \in DOMAIN heading : row[i] \in Sent(heading[i].type)
  BY DEF ServerRows
<1>5. /\ DOMAIN columns = DOMAIN heading
      /\ \A i \in DOMAIN columns : DOMAIN columns[i] = {"name", "kind"} /\ columns[i].kind \in Kinds
  BY DEF ResultInv, ResultTypeOK
<1>6. ASSUME NEW i \in DOMAIN heading
      PROVE  /\ cells[i] \in [form : Forms, of : Contents]
             /\ got[i][2] \in Kinds
             /\ cells[i].form = "base64" =>
                  \/ columns[i].kind \in {"bytes", "bool"}
                  \/ Known(i) /\ got[i][2] = "bytes"
  <2>1. PICK f \in Forms, k \in Kinds :
          /\ got[i][1] \in {Null, Cell(f, row[i])}
          /\ got[i][2] = k
          /\ f = "base64" => \/ columns[i].kind \in {"bytes", "bool"}
                             \/ columns[i].kind = "unknown" /\ k = "bytes"
    BY <1>4, <1>5, Conversion
  <2>2. row[i].content \in Contents
    BY <1>4 DEF Contents
  <2>3. "null" \in Forms /\ "null" \in Contents
    BY DEF Forms, Contents
  <2>4. cells[i] = got[i][1]
    BY <1>4
  <2> HIDE DEF got, cells
  <2>5. cells[i].form = "base64" => f = "base64" /\ cells[i] # Null
    BY <2>1, <2>4 DEF Null, Cell
  <2> QED BY <2>1, <2>2, <2>3, <2>4, <2>5 DEF Null, Cell
<1>7. cells \in [DOMAIN heading -> [form : Forms, of : Contents]]
  BY <1>4, <1>6
<1>8. /\ DOMAIN columns' = DOMAIN heading
      /\ \A i \in DOMAIN heading :
           /\ DOMAIN columns'[i] = {"name", "kind"} /\ columns'[i].kind \in Kinds
           /\ columns'[i].name = columns[i].name
           /\ columns'[i].kind = IF Known(i) THEN got[i][2] ELSE columns[i].kind
  <2> HIDE DEF got
  <2> QED BY <1>3, <1>5, <1>6
<1>9. /\ pulled \in Seq(ServerRows) /\ rows \in Seq([DOMAIN heading -> [form : Forms, of : Contents]])
      /\ options \in Int /\ truncated \in BOOLEAN
  BY DEF ResultInv, ResultTypeOK
<1> HIDE DEF got, cells, Known
<1>10. pulled' \in Seq(ServerRows)' /\ Len(pulled') = Len(pulled) + 1
  <2>1. ServerRows' = ServerRows
    BY <1>1 DEF ServerRows
  <2> QED BY <1>1, <1>9, <2>1
<1>11. /\ rows' \in Seq([DOMAIN heading -> [form : Forms, of : Contents]])
       /\ Contents' = Contents
       /\ Len(rows') = Len(rows) + 1 /\ DOMAIN rows = 1..Len(rows) /\ DOMAIN rows' = 1..(Len(rows) + 1)
       /\ \A n \in DOMAIN rows : rows'[n] = rows[n]
       /\ rows'[Len(rows) + 1] = cells
  BY <1>1, <1>2, <1>7, <1>9 DEF Contents
<1>12. ResultTypeOK'
  BY <1>1, <1>8, <1>9, <1>10, <1>11 DEF ResultTypeOK
<1>13. ReadingOn' /\ CapKept'
  <2>1. MaxRows(options) \in Int /\ MaxRows(options)' = MaxRows(options)
    BY <1>1, <1>9, CapAssumption DEF MaxRows
  <2>2. Len(rows) \in Nat /\ Len(pulled) \in Nat
    BY <1>9
  <2> QED BY <1>1, <1>10, <1>11, <2>1, <2>2 DEF ResultInv, ReadingOn, CapKept
<1>14. BinaryStandsInBytes'
  <2>1. SUFFICES ASSUME NEW n \in DOMAIN rows', NEW i \in DOMAIN heading,
                        rows'[n][i].form = "base64"
                 PROVE  columns'[i].kind \in {"bytes", "bool"}
    BY <1>1 DEF BinaryStandsInBytes
  <2>2. CASE n \in DOMAIN rows
    <3>1. columns[i].kind \in {"bytes", "bool"}
      BY <1>11, <2>1, <2>2 DEF ResultInv, BinaryStandsInBytes
    <3> QED BY <1>8, <3>1 DEF Known
  <2>3. CASE n \notin DOMAIN rows
    <3>1. n = Len(rows) + 1
      BY <1>9, <1>11, <2>3
    <3>2. cells[i].form = "base64"
      BY <1>11, <2>1, <3>1
    <3> QED BY <1>6, <1>8, <3>2 DEF Known
  <2> QED BY <2>2, <2>3
<1>15. NamesTellColumnsApart'
  BY <1>1, <1>5, <1>8 DEF ResultInv, NamesTellColumnsApart
<1> QED BY <1>12, <1>13, <1>14, <1>15 DEF ResultInv

\* One is taken off and not kept.
LEMMA CapKeeps ==
  ASSUME ResultInv, NEW row \in ServerRows, CapReached(row) PROVE ResultInv'
<1>1. /\ reading = "reading" /\ reading' = "read" /\ truncated' = TRUE
      /\ MaxRows(options) >= 0 /\ Len(rows) >= MaxRows(options)
      /\ pulled' = Append(pulled, row)
      /\ UNCHANGED <<options, heading, columns, rows>>
  BY DEF CapReached
<1>2. /\ pulled \in Seq(ServerRows) /\ rows \in Seq([DOMAIN heading -> [form : Forms, of : Contents]])
      /\ options \in Int
  BY DEF ResultInv, ResultTypeOK
<1>3. ServerRows' = ServerRows /\ Contents' = Contents
  BY <1>1 DEF ServerRows, Contents
<1>4. pulled' \in Seq(ServerRows)' /\ Len(pulled') = Len(pulled) + 1
  BY <1>1, <1>2, <1>3
<1>5. ResultTypeOK'
  BY <1>1, <1>3, <1>4 DEF ResultInv, ResultTypeOK
<1>6. ReadingOn' /\ CapKept'
  <2>1. MaxRows(options) \in Int /\ MaxRows(options)' = MaxRows(options)
    BY <1>1, <1>2, CapAssumption DEF MaxRows
  <2>2. Len(rows) \in Nat /\ Len(pulled) \in Nat
    BY <1>2
  <2> QED BY <1>1, <1>4, <2>1, <2>2 DEF ResultInv, ReadingOn, CapKept
<1>7. BinaryStandsInBytes' /\ NamesTellColumnsApart'
  BY <1>1 DEF ResultInv, BinaryStandsInBytes, NamesTellColumnsApart
<1> QED BY <1>5, <1>6, <1>7 DEF ResultInv

\* Nothing else is, whatever ends the reading, and a behaviour about a script
\* or a form has no result set.
LEMMA StopKeeps ==
  ASSUME ResultInv, UNCHANGED <<options, heading, pulled, columns, rows, truncated>>,
         reading' \in {reading, "read", "failed"}
  PROVE  ResultInv'
<1>1. ServerRows' = ServerRows /\ Contents' = Contents
  BY DEF ServerRows, Contents
<1>2. ResultTypeOK'
  BY <1>1 DEF ResultInv, ResultTypeOK
<1>3. ReadingOn' /\ CapKept' /\ BinaryStandsInBytes' /\ NamesTellColumnsApart'
  BY DEF ResultInv, ReadingOn, CapKept, MaxRows, BinaryStandsInBytes, NamesTellColumnsApart
<1> QED BY <1>2, <1>3 DEF ResultInv

LEMMA ResultStep == ASSUME ResultInv, ResultNext PROVE ResultInv'
<1>1. ASSUME NEW row \in ServerRows, ScanFails(row) PROVE ResultInv'
  <2>1. UNCHANGED <<options, heading, pulled, columns, rows, truncated>> /\ reading' = "failed"
    BY <1>1 DEF ScanFails
  <2> QED BY <2>1, StopKeeps
<1>2. CASE RowsEnd
  <2>1. /\ UNCHANGED <<options, heading, pulled, columns, rows, truncated>>
        /\ reading' \in {"read", "failed"}
    BY <1>2 DEF RowsEnd
  <2> QED BY <2>1, StopKeeps
<1> QED BY <1>1, <1>2, KeepKeeps, CapKeeps DEF ResultNext

LEMMA NoResult ==
  ASSUME options = 0, heading = <<>>, pulled = <<>>, columns = <<>>, rows = <<>>,
         truncated = FALSE, reading = "read"
  PROVE  ResultInv
<1>1. ResultTypeOK
  <2>1. pulled \in Seq(ServerRows) /\ rows \in Seq([DOMAIN heading -> [form : Forms, of : Contents]])
    OBVIOUS
  <2>2. DOMAIN columns = DOMAIN heading /\ DOMAIN columns = {}
    OBVIOUS
  <2>3. options \in Int /\ reading \in {"reading", "read", "failed"}
    OBVIOUS
  <2>5. truncated \in BOOLEAN
    BY Zenon
  <2>4. \A i \in DOMAIN columns : DOMAIN columns[i] = {"name", "kind"} /\ columns[i].kind \in Kinds
    BY <2>2
  <2> QED BY <2>1, <2>2, <2>3, <2>4, <2>5, Zenon DEF ResultTypeOK
<1>2. ReadingOn /\ BinaryStandsInBytes
  BY DEF ReadingOn, BinaryStandsInBytes
<1>4. NamesTellColumnsApart
  BY DEF NamesTellColumnsApart
<1>3. CapKept
  BY CapAssumption DEF CapKept, MaxRows
<1> QED BY <1>1, <1>2, <1>3, <1>4 DEF ResultInv

-----------------------------------------------------------------------------
(* A form.                                                                 *)

LEMMA FormBegins == FormInit => FormTypeOK
<1>1. NewForm.engine \in Engines
  BY DEF NewForm, Engines
<1> QED BY <1>1, FormAssumption DEF FormInit, FormTypeOK

LEMMA FormStep == ASSUME FormTypeOK, FormNext PROVE FormTypeOK'
<1>1. ASSUME NEW field \in DOMAIN Entries, NEW entry \in Entries[field], FillIn(field, entry)
      PROVE  FormTypeOK'
  BY <1>1, FormAssumption DEF FillIn, FormTypeOK
<1>2. ASSUME NEW e \in Engines, ChooseEngine(e) PROVE FormTypeOK'
  BY <1>2 DEF ChooseEngine, FormTypeOK
<1> QED BY <1>1, <1>2 DEF FormNext

\* What _buildProfile makes of a form.
LEMMA Built ==
  ASSUME FormTypeOK
  PROVE  LET c == Profile(form)
         IN  /\ DOMAIN c = DOMAIN NewForm
             /\ c.host = Trimmed(form.host) /\ c.user = Trimmed(form.user)
             /\ c.file = Trimmed(form.file) /\ c.database = Trimmed(form.database)
             /\ c.port = IF form.port = Junk THEN 0 ELSE form.port
             /\ c.engine = form.engine /\ c.auth = form.auth /\ c.tls = form.tls
             /\ c.params = form.params /\ c.rawDsn = form.rawDsn /\ c.timeout = 15
  BY DEF FormTypeOK, NewForm, Profile

\* The editor's rules are at least the core's.
LEMMA Agrees == FormTypeOK => EditorAgreesWithCore
<1> SUFFICES ASSUME FormTypeOK, FormAccepts(form) PROVE Validate(Profile(form)) = {}
  BY DEF EditorAgreesWithCore
<1> DEFINE c == Profile(form)
<1>1. /\ c.host = Trimmed(form.host) /\ c.user = Trimmed(form.user)
      /\ c.file = Trimmed(form.file) /\ c.database = Trimmed(form.database)
      /\ c.port = IF form.port = Junk THEN 0 ELSE form.port
      /\ c.engine = form.engine /\ c.auth = form.auth /\ c.rawDsn = form.rawDsn
  BY Built
<1>2. c.engine \in Engines /\ c.engine # ""
  BY <1>1 DEF FormTypeOK, Engines
<1>3. \A s : Trimmed(Trimmed(s)) = Trimmed(s)
  BY DEF Trimmed
<1> HIDE DEF c
<1>4. CASE c.engine = "sqlite"
  <2>1. Trimmed(c.file) # ""
    BY <1>1, <1>3, <1>4 DEF FormAccepts
  <2> QED BY <1>2, <1>4, <2>1 DEF Validate, c
<1>5. CASE c.engine # "sqlite"
  <2>1. /\ Trimmed(c.host) # "" /\ Trimmed(c.user) # "" /\ c.port \in 0..LastPort
        /\ c.engine = "postgres" => Trimmed(c.database) # ""
    <3>1. LastPort \in Nat
      BY DEF LastPort
    <3>2. /\ Trimmed(form.host) # "" /\ Trimmed(form.user) # ""
          /\ form.port = 0 \/ form.port \in 1..LastPort
          /\ c.engine = "postgres" => Trimmed(form.database) # ""
      BY <1>1, <1>5 DEF FormAccepts
    <3>3. c.port \in 0..LastPort
      <4>1. c.port = 0 \/ c.port = form.port
        BY <1>1
      <4>2. 0 \in 0..LastPort /\ \A p \in 1..LastPort : p \in 0..LastPort
        BY <3>1
      <4> QED BY <3>2, <4>1, <4>2, Zenon
    <3>4. /\ Trimmed(c.host) = Trimmed(form.host) /\ Trimmed(c.user) = Trimmed(form.user)
          /\ Trimmed(c.database) = Trimmed(form.database)
      BY <1>1, <1>3, Zenon
    <3> QED BY <3>2, <3>3, <3>4
  <2>2. c.engine = "sqlserver" /\ AuthMethod(c) = "windows" => HasDomain(c.user)
    BY <1>1, <1>5 DEF FormAccepts, AuthMethod, HasDomain, Trimmed
  <2> QED BY <1>2, <1>5, <2>1, <2>2 DEF Validate, c
<1> QED BY <1>4, <1>5

\* Settings put together: those named first win.
LEMMA Named == ASSUME NEW k, NEW v PROVE DOMAIN Setting(k, v) = {k} /\ Setting(k, v)[k] = v
  BY DEF Setting

LEMMA FirstWins ==
  ASSUME NEW f, NEW g, NEW k, k \notin DOMAIN f
  PROVE  /\ k \in DOMAIN (f ++ g) <=> k \in DOMAIN g
         /\ k \in DOMAIN g => (f ++ g)[k] = g[k]
  BY DEF ++

LEMMA NoSettings == DOMAIN <<>> = {}
  OBVIOUS

\* What is said of encryption where nothing less was asked for.
LEMMA Encrypts ==
  ASSUME NEW c, c.engine \in Networked, c.tls \notin {"disable", "prefer"}
  PROVE  /\ c.engine = "sqlserver" => /\ "encrypt" \in DOMAIN TlsSettings(c)
                                      /\ TlsSettings(c)["encrypt"] = "true"
         /\ c.engine = "postgres" => /\ "sslmode" \in DOMAIN TlsSettings(c)
                                     /\ TlsSettings(c)["sslmode"] \in {"require", "verify-full"}
         /\ c.engine = "mysql" => /\ "tls" \in DOMAIN TlsSettings(c)
                                  /\ TlsSettings(c)["tls"] \in {"skip-verify", "true"}
<1>1. TlsMode(c) \in {"require", "verify"}
  BY DEF TlsMode, Networked, Engines
<1>2. CASE c.engine = "sqlserver"
  <2> DEFINE first == Setting("encrypt", "true")
             trust == Setting("TrustServerCertificate",
                              IF TlsMode(c) = "require" THEN "true" ELSE "false")
  <2>1. TlsSettings(c) = first ++ trust
    BY <1>1, <1>2 DEF TlsSettings
  <2>2. DOMAIN first = {"encrypt"} /\ first["encrypt"] = "true"
    BY Named
  <2> HIDE DEF first, trust
  <2>3. "encrypt" \in DOMAIN (first ++ trust) /\ (first ++ trust)["encrypt"] = "true"
    BY <2>2 DEF ++
  <2> QED BY <1>2, <2>1, <2>3
<1>3. CASE c.engine = "postgres"
  <2> DEFINE mode == IF TlsMode(c) = "verify" THEN "verify-full" ELSE TlsMode(c)
  <2>1. TlsSettings(c) = Setting("sslmode", mode)
    BY <1>3 DEF TlsSettings
  <2>2. mode \in {"require", "verify-full"}
    BY <1>1
  <2> HIDE DEF mode
  <2>3. DOMAIN Setting("sslmode", mode) = {"sslmode"} /\ Setting("sslmode", mode)["sslmode"] = mode
    BY Named
  <2> QED BY <1>3, <2>1, <2>2, <2>3
<1>4. CASE c.engine = "mysql"
  <2> DEFINE mode == IF TlsMode(c) = "require" THEN "skip-verify" ELSE "true"
  <2>1. TlsSettings(c) = Setting("tls", mode)
    BY <1>1, <1>4 DEF TlsSettings
  <2>2. mode \in {"skip-verify", "true"}
    OBVIOUS
  <2> HIDE DEF mode
  <2>3. DOMAIN Setting("tls", mode) = {"tls"} /\ Setting("tls", mode)["tls"] = mode
    BY Named
  <2> QED BY <1>4, <2>1, <2>2, <2>3
<1> QED BY <1>2, <1>3, <1>4 DEF Networked, Engines

\* It is in the connection string unless a parameter of the user's says other.
LEMMA TlsIsSaid ==
  ASSUME NEW c, NEW k, k \in DOMAIN TlsSettings(c), k \notin DOMAIN c.params,
         k \in {"encrypt", "sslmode", "tls"}
  PROVE  /\ SqlServerSettings(c)[k] = TlsSettings(c)[k]
         /\ PostgresSettings(c)[k] = TlsSettings(c)[k]
         /\ MysqlSettings(c)[k] = TlsSettings(c)[k]
<1>1. ASSUME NEW before, k \notin DOMAIN before PROVE (before ++ TlsSettings(c))[k] = TlsSettings(c)[k]
  BY <1>1, FirstWins
<1>2. ASSUME NEW f, NEW g, k \notin DOMAIN f, k \notin DOMAIN g PROVE k \notin DOMAIN (f ++ g)
  BY <1>2, FirstWins
<1>3. SqlServerSettings(c)[k] = TlsSettings(c)[k]
  <2> DEFINE database == IF c.database = "" THEN <<>> ELSE Setting("database", c.database)
             ntlm == IF AuthMethod(c) = "windows" THEN Setting("authenticator", "ntlm") ELSE <<>>
             timeout == Setting("connection timeout", Timeout(c))
  <2>1. k \notin DOMAIN database /\ k \notin DOMAIN ntlm /\ k \notin DOMAIN timeout
    <3>1. /\ DOMAIN Setting("database", c.database) = {"database"}
          /\ DOMAIN Setting("authenticator", "ntlm") = {"authenticator"}
          /\ DOMAIN timeout = {"connection timeout"}
      BY Named
    <3>2. DOMAIN database \in {{}, {"database"}} /\ DOMAIN ntlm \in {{}, {"authenticator"}}
      BY <3>1, NoSettings, Zenon
    <3> QED BY <3>1, <3>2
  <2>2. SqlServerSettings(c) = c.params ++ database ++ ntlm ++ timeout ++ TlsSettings(c)
    BY DEF SqlServerSettings
  <2> HIDE DEF database, ntlm, timeout
  <2>3. k \notin DOMAIN (c.params ++ database)
    BY <1>2, <2>1
  <2>4. k \notin DOMAIN (c.params ++ database ++ ntlm)
    BY <1>2, <2>1, <2>3
  <2>5. k \notin DOMAIN (c.params ++ database ++ ntlm ++ timeout)
    BY <1>2, <2>1, <2>4
  <2> QED BY <1>1, <2>2, <2>5
<1>4. PostgresSettings(c)[k] = TlsSettings(c)[k]
  <2> DEFINE timeout == Setting("connect_timeout", Timeout(c))
  <2>1. k \notin DOMAIN timeout
    BY Named
  <2>2. PostgresSettings(c) = c.params ++ timeout ++ TlsSettings(c)
    BY DEF PostgresSettings
  <2> HIDE DEF timeout
  <2>3. k \notin DOMAIN (c.params ++ timeout)
    BY <1>2, <2>1
  <2> QED BY <1>1, <2>2, <2>3
<1>5. MysqlSettings(c)[k] = TlsSettings(c)[k]
  <2> DEFINE times == [s \in {"parseTime", "loc"} |-> IF s = "loc" THEN "UTC" ELSE "true"]
             timeout == Setting("timeout", Timeout(c))
  <2>1. k \notin DOMAIN times /\ k \notin DOMAIN timeout
    BY Named
  <2>2. MysqlSettings(c) = c.params ++ times ++ timeout ++ TlsSettings(c)
    BY DEF MysqlSettings
  <2> HIDE DEF times, timeout
  <2>3. k \notin DOMAIN (c.params ++ times)
    BY <1>2, <2>1
  <2>4. k \notin DOMAIN (c.params ++ times ++ timeout)
    BY <1>2, <2>1, <2>3
  <2> QED BY <1>1, <2>2, <2>4
<1> QED BY <1>3, <1>4, <1>5

\* What the setting that counts is, by engine, and what it may not say.
LEMMA Words ==
  /\ TlsSetting["sqlserver"] = "encrypt" /\ SaysUnsecure["sqlserver"] = {"disable", "false"}
  /\ TlsSetting["postgres"] = "sslmode" /\ SaysUnsecure["postgres"] = {"disable", "prefer"}
  /\ TlsSetting["mysql"] = "tls" /\ SaysUnsecure["mysql"] = {"false", "preferred"}
<1>1. TlsSetting["sqlserver"] = "encrypt" /\ TlsSetting["postgres"] = "sslmode"
      /\ TlsSetting["mysql"] = "tls"
  BY DEF TlsSetting
<1>2. SaysUnsecure["sqlserver"] = {"disable", "false"}
  BY DEF SaysUnsecure
<1>3. SaysUnsecure["postgres"] = {"disable", "prefer"}
  BY DEF SaysUnsecure
<1>4. SaysUnsecure["mysql"] = {"false", "preferred"}
  BY DEF SaysUnsecure
<1> QED BY <1>1, <1>2, <1>3, <1>4

\* The connection string has the settings, unless it is the user's own.
LEMMA Assembled ==
  ASSUME NEW c, c.engine \in Networked, c.rawDsn = ""
  PROVE  DSN(c).settings = Settings(c)
<1>1. c.engine # "sqlite"
  BY DEF Networked
<1>2. DSN(c) = [server |-> HostPort(c), user |-> c.user,
                path |-> IF c.engine = "sqlserver" THEN "" ELSE c.database,
                settings |-> Settings(c)]
  BY <1>1, Zenon DEF DSN
<1> DEFINE path == IF c.engine = "sqlserver" THEN "" ELSE c.database
<1> HIDE DEF path
<1>3. [server |-> HostPort(c), user |-> c.user, path |-> path, settings |-> Settings(c)].settings
        = Settings(c)
  BY Zenon
<1> QED BY <1>2, <1>3, Zenon DEF path

\* It says so.
LEMMA SecureSettings ==
  ASSUME NEW c, c.engine \in Networked, DSN(c).settings = Settings(c),
         c.tls \notin {"disable", "prefer"}, TlsSetting[c.engine] \notin DOMAIN c.params
  PROVE  DSN(c).settings[TlsSetting[c.engine]] \notin SaysUnsecure[c.engine]
<1>1. DSN(c).settings = Settings(c)
  OBVIOUS
<1>2. CASE c.engine = "sqlserver"
  <2>1. "encrypt" \in DOMAIN TlsSettings(c) /\ TlsSettings(c)["encrypt"] \in {"true"}
    BY <1>2, Encrypts
  <2>2. "encrypt" \notin DOMAIN c.params
    BY <1>2, Words
  <2>3. SqlServerSettings(c)["encrypt"] = TlsSettings(c)["encrypt"]
    BY <2>1, <2>2, TlsIsSaid
  <2>4. Settings(c) = SqlServerSettings(c)
    BY <1>2 DEF Settings
  <2>5. DSN(c).settings["encrypt"] \in {"true"}
    BY <1>1, <2>1, <2>3, <2>4
  <2>6. DSN(c).settings["encrypt"] \notin {"disable", "false"}
    BY <2>5
  <2> QED BY <1>2, <2>6, Words
<1>3. CASE c.engine = "postgres"
  <2>1. "sslmode" \in DOMAIN TlsSettings(c) /\ TlsSettings(c)["sslmode"] \in {"require", "verify-full"}
    BY <1>3, Encrypts
  <2>2. "sslmode" \notin DOMAIN c.params
    BY <1>3, Words
  <2>3. PostgresSettings(c)["sslmode"] = TlsSettings(c)["sslmode"]
    BY <2>1, <2>2, TlsIsSaid
  <2>4. Settings(c) = PostgresSettings(c)
    BY <1>3 DEF Settings
  <2>5. DSN(c).settings["sslmode"] \in {"require", "verify-full"}
    BY <1>1, <2>1, <2>3, <2>4
  <2>6. DSN(c).settings["sslmode"] \notin {"disable", "prefer"}
    BY <2>5
  <2> QED BY <1>3, <2>6, Words
<1>4. CASE c.engine = "mysql"
  <2>1. "tls" \in DOMAIN TlsSettings(c) /\ TlsSettings(c)["tls"] \in {"skip-verify", "true"}
    BY <1>4, Encrypts
  <2>2. "tls" \notin DOMAIN c.params
    BY <1>4, Words
  <2>3. MysqlSettings(c)["tls"] = TlsSettings(c)["tls"]
    BY <2>1, <2>2, TlsIsSaid
  <2>4. Settings(c) = MysqlSettings(c)
    BY <1>4 DEF Settings
  <2>5. DSN(c).settings["tls"] \in {"skip-verify", "true"}
    BY <1>1, <2>1, <2>3, <2>4
  <2>6. DSN(c).settings["tls"] \notin {"false", "preferred"}
    BY <2>5
  <2> QED BY <1>4, <2>6, Words
<1> QED BY <1>2, <1>3, <1>4 DEF Networked, Engines

LEMMA Secure == EncryptedUnlessAsked
  BY Assembled, SecureSettings, Zenon DEF EncryptedUnlessAsked

\* Only the database differs, and it is not what a server is dialled by.
LEMMA Dials == FormTypeOK => EnumerationDials
<1> SUFFICES ASSUME FormTypeOK PROVE EnumerationDials
  OBVIOUS
<1> DEFINE c == Profile(form)
           e == ForEnumeration(c)
<1>1. DOMAIN c = DOMAIN NewForm
  BY Built
<1> HIDE DEF c
<1>2. \/ e = [c EXCEPT !.database = ""] /\ c.engine # "postgres"
      \/ e = [c EXCEPT !.database = "postgres"] /\ c.engine = "postgres"
      \/ e = c /\ Trimmed(c.database) # ""
  BY DEF ForEnumeration
<1>3. /\ e.engine = c.engine /\ e.auth = c.auth /\ e.tls = c.tls /\ e.host = c.host
      /\ e.port = c.port /\ e.user = c.user /\ e.rawDsn = c.rawDsn
      /\ c.engine = "postgres" => Trimmed(e.database) # ""
  BY <1>1, <1>2 DEF NewForm, Trimmed
<1> HIDE DEF e
<1>4. ASSUME c.engine \in Networked, Validate(c) \subseteq {"database"}
      PROVE  Validate(e) = {}
  <2>1. c.engine \in Engines /\ c.engine # "" /\ c.engine # "sqlite"
    BY <1>4 DEF Networked, Engines
  <2>2. CASE c.rawDsn # ""
    BY <1>3, <2>1, <2>2 DEF Validate
  <2>3. CASE c.rawDsn = ""
    <3> DEFINE Wrong(f, p) ==
                 \/ p = "host" /\ Trimmed(f.host) = ""
                 \/ p = "port" /\ f.port \notin 0..LastPort
                 \/ p = "user" /\ Trimmed(f.user) = ""
                 \/ p = "database" /\ f.engine = "postgres" /\ Trimmed(f.database) = ""
                 \/ p = "domain" /\ f.engine = "sqlserver" /\ AuthMethod(f) = "windows"
                                 /\ ~HasDomain(f.user)
               problems == {"host", "port", "user", "database", "domain"}
    <3>1. Validate(c) = {p \in problems : Wrong(c, p)}
      BY <2>1, <2>3 DEF Validate
    <3>2. Validate(e) = {p \in problems : Wrong(e, p)}
      BY <1>3, <2>1, <2>3 DEF Validate
    <3>3. \A p \in problems : Wrong(e, p) => p # "database" /\ Wrong(c, p)
      BY <1>3 DEF AuthMethod
    <3> HIDE DEF Wrong
    <3> QED BY <1>4, <3>1, <3>2, <3>3
  <2> QED BY <2>2, <2>3
<1>5. TlsSettings(e) = TlsSettings(c)
  BY <1>3 DEF TlsSettings, TlsMode
<1>6. ASSUME c.engine \in Networked, c.rawDsn = ""
      PROVE  DSN(e).server = DSN(c).server /\ DSN(e).user = DSN(c).user
  <2>1. c.engine # "sqlite"
    BY <1>6 DEF Networked
  <2>2. \A f : f.rawDsn = "" /\ f.engine # "sqlite" =>
                  DSN(f).server = HostPort(f) /\ DSN(f).user = f.user
    BY DEF DSN
  <2>3. HostPort(e) = HostPort(c)
    BY <1>3 DEF HostPort
  <2> QED BY <1>3, <1>6, <2>1, <2>2, <2>3
<1> QED BY <1>4, <1>5, <1>6 DEF EnumerationDials, c, e

-----------------------------------------------------------------------------
(* Going through a text.  The scans call themselves for a later position,   *)
(* so what they do is shown from the end of the text back.                 *)

\* Of the numbers that are an exception, one is the least.
LEMMA Least == ASSUME NEW T \in SUBSET Nat, T # {} PROVE \E m \in T : \A k \in T : m <= k
<1> DEFINE R == OpToRel(<, Nat)
<1>1. IsWellFoundedOn(R, Nat)
  BY NatLessThanWellFounded
<1>2. \A i, k \in Nat : <<i, k>> \in R <=> i < k
  BY DEF OpToRel
<1> HIDE DEF R
<1>3. PICK m \in T : \A k \in T : <<k, m>> \notin R
  BY <1>1, WFMin
<1>4. ASSUME NEW k \in T PROVE m <= k
  <2>1. m \in Nat /\ k \in Nat
    OBVIOUS
  <2>2. ~(k < m)
    BY <1>2, <1>3, <2>1
  <2> QED BY <2>1, <2>2
<1> QED BY <1>4

\* What holds at a position if it holds at every later one holds at all of them.
LEMMA FromTheEnd ==
  ASSUME NEW n \in Nat, NEW P \in SUBSET Position,
         \A i \in Position : i > n => i \in P,
         \A i \in 1..n : (\A k \in Position : k > i => k \in P) => i \in P
  PROVE  \A i \in Position : i \in P
<1> DEFINE T == {m \in Nat : \E i \in Position : i \notin P /\ i + m = n}
<1>1. SUFFICES ASSUME NEW i \in Position, i \notin P PROVE FALSE
  OBVIOUS
<1>2. i \in Nat /\ i >= 1 /\ i <= n
  BY <1>1 DEF Position
<1>3. n - i \in T
  BY <1>1, <1>2
<1>4. PICK m \in T : \A k \in T : m <= k
  <2> HIDE DEF T
  <2>1. T \in SUBSET Nat /\ T # {}
    BY <1>3 DEF T
  <2> QED BY <2>1, Least
<1>5. PICK j \in Position : j \notin P /\ j + m = n
  OBVIOUS
<1>6. j \in 1..n
  BY <1>5 DEF Position
<1>7. ASSUME NEW k \in Position, k > j PROVE k \in P
  <2>1. SUFFICES ASSUME k \notin P PROVE FALSE
    OBVIOUS
  <2>2. k <= n /\ k \in Nat
    BY <2>1 DEF Position
  <2>3. n - k \in T
    BY <2>1, <2>2
  <2>4. m <= n - k
    <3> HIDE DEF T
    <3> QED BY <1>4, <2>3
  <2> QED BY <1>5, <1>6, <1>7, <2>2, <2>4
<1> QED BY <1>5, <1>6, <1>7

\* There is a function that calls itself for later positions: one that is base
\* behind the end and use of what it is at next, which is later.
Scanning(n, V, base, next, use) ==
  /\ n \in Nat /\ base \in [Position -> V] /\ use \in [1..n -> [V -> V]]
  /\ next \in [1..n -> Position] /\ \A i \in 1..n : next[i] > i

LEMMA Scan ==
  ASSUME NEW n, NEW V, NEW base, NEW next, NEW use, Scanning(n, V, base, next, use)
  PROVE  \E f \in [Position -> V] :
           \A i \in Position : f[i] = IF i > n THEN base[i] ELSE use[i][f[next[i]]]
<1> USE DEF Scanning
<1> DEFINE Right(f, i) == f[i] = IF i > n THEN base[i] ELSE use[i][f[next[i]]]
           P == {i \in Position :
                   \E f \in [Position -> V] : \A k \in Position : k >= i => Right(f, k)}
<1>1. \A i \in Position : i > n => i \in P
  <2> TAKE i \in Position
  <2>1. SUFFICES ASSUME i > n PROVE \A k \in Position : k >= i => Right(base, k)
    OBVIOUS
  <2>2. ASSUME NEW k \in Position, k >= i PROVE k > n
    BY <2>1, <2>2 DEF Position
  <2> QED BY <2>2
<1>2. ASSUME NEW i \in 1..n, \A k \in Position : k > i => k \in P PROVE i \in P
  <2>1. i \in Position /\ i + 1 \in Position /\ i + 1 > i
    BY DEF Position
  <2>2. PICK f \in [Position -> V] : \A k \in Position : k >= i + 1 => Right(f, k)
    <3>1. i + 1 \in P
      BY <1>2, <2>1
    <3> QED BY <3>1
  <2> DEFINE g == [f EXCEPT ![i] = use[i][f[next[i]]]]
  <2>3. g \in [Position -> V]
    <3>1. next[i] \in Position
      OBVIOUS
    <3>2. f[next[i]] \in V
      BY <2>2, <3>1
    <3>3. use[i][f[next[i]]] \in V
      BY <3>2
    <3> QED BY <2>2, <3>3
  <2>4. ASSUME NEW k \in Position, k >= i PROVE Right(g, k)
    <3>1. k <= n => k \in 1..n /\ next[k] \in Position /\ next[k] > k
      BY DEF Position
    <3>2. k <= n => g[next[k]] = f[next[k]]
      BY <2>1, <2>4, <3>1 DEF Position
    <3>3. CASE k = i
      BY <2>1, <3>2, <3>3
    <3>4. CASE k # i
      <4>1. k >= i + 1 /\ g[k] = f[k]
        BY <2>4, <3>4 DEF Position
      <4>2. Right(f, k)
        BY <2>2, <4>1
      <4>3. ~(k > n) => k <= n
        BY DEF Position
      <4> QED BY <3>2, <4>1, <4>2, <4>3
    <3> QED BY <3>3, <3>4
  <2> HIDE DEF g, Right
  <2> QED BY <2>1, <2>3, <2>4
<1>3. P \in SUBSET Position
  OBVIOUS
<1> HIDE DEF P
<1>4. 1 \in P
  <2>1. \A i \in Position : i \in P
    BY <1>1, <1>2, <1>3, FromTheEnd
  <2> QED BY <2>1 DEF Position
<1>5. PICK f \in [Position -> V] : \A k \in Position : k >= 1 => Right(f, k)
  BY <1>4 DEF P
<1>6. \A k \in Position : k >= 1
  BY DEF Position
<1> QED BY <1>5, <1>6

-----------------------------------------------------------------------------
(* What is stepped over: every scan goes on, and knows where it goes on.   *)

\* The first of some positions, and the end where there is none.
LEMMA FirstOf ==
  ASSUME NEW n \in Nat, NEW i \in Position, i <= n + 1, NEW S \in SUBSET (i..n)
  PROVE  /\ Min(S \cup {n + 1}) \in i..(n + 1)
         /\ Min(S \cup {n + 1}) \in S \cup {n + 1}
         /\ \A j \in S : Min(S \cup {n + 1}) <= j
<1>1. S \cup {n + 1} \in SUBSET Nat /\ S \cup {n + 1} # {}
  BY DEF Position
<1>2. PICK m \in S \cup {n + 1} : \A k \in S \cup {n + 1} : m <= k
  BY <1>1, Least
<1>3. /\ Min(S \cup {n + 1}) \in S \cup {n + 1}
      /\ \A k \in S \cup {n + 1} : Min(S \cup {n + 1}) <= k
  BY <1>2 DEF Min
<1>4. S \cup {n + 1} \subseteq i..(n + 1)
  BY DEF Position
<1> QED BY <1>3, <1>4

LEMMA FromBehind ==
  ASSUME NEW t, Len(t) \in Nat, NEW i \in Position, i <= Len(t) + 1, NEW S
  PROVE  /\ From(t, i, S) \in i..(Len(t) + 1)
         /\ From(t, i, S) <= Len(t) => t[From(t, i, S)] \in S
         /\ \A j \in i..Len(t) : t[j] \in S => From(t, i, S) <= j
<1> DEFINE F == {j \in i..Len(t) : t[j] \in S}
<1>1. F \in SUBSET (i..Len(t))
  OBVIOUS
<1>2. From(t, i, S) = Min(F \cup {Len(t) + 1})
  BY DEF From
<1> HIDE DEF F
<1>3. /\ From(t, i, S) \in i..(Len(t) + 1) /\ From(t, i, S) \in F \cup {Len(t) + 1}
      /\ \A j \in F : From(t, i, S) <= j
  <2> DEFINE n == Len(t)
             m == Min(F \cup {n + 1})
  <2>1. n \in Nat /\ i <= n + 1 /\ F \in SUBSET (i..n)
    BY <1>1
  <2> HIDE DEF n
  <2>2. m \in i..(n + 1) /\ m \in F \cup {n + 1} /\ \A j \in F : m <= j
    BY <2>1, FirstOf
  <2> QED BY <1>2, <2>2 DEF n
<1>4. From(t, i, S) <= Len(t) => From(t, i, S) \in F
  BY <1>3
<1> QED BY <1>3, <1>4 DEF F

LEMMA WordBehind ==
  ASSUME NEW t, Len(t) \in Nat, NEW i \in Position, i <= Len(t) + 1
  PROVE  WordEnd(t, i) \in i..(Len(t) + 1)
<1> DEFINE F == {j \in i..Len(t) : ~IsIdent(t[j])}
<1>1. F \in SUBSET (i..Len(t))
  OBVIOUS
<1>2. WordEnd(t, i) = Min(F \cup {Len(t) + 1})
  BY DEF WordEnd
<1> HIDE DEF F
<1> DEFINE n == Len(t)
<1>3. n \in Nat /\ i <= n + 1 /\ F \in SUBSET (i..n)
  BY <1>1
<1> HIDE DEF n
<1>4. Min(F \cup {n + 1}) \in i..(n + 1)
  BY <1>3, FirstOf
<1> QED BY <1>2, <1>4 DEF n

\* What SkipQuoted does at a position inside the quotes.
Pair(t, j, quote) == At(t, j, <<quote, quote>>) \/ (t[j] = "\\" /\ j < Len(t))
QuotedAt(t, quote, f, j) ==
  IF j > Len(t) THEN j
  ELSE IF Pair(t, j, quote) THEN f[j + 2]
  ELSE IF t[j] = quote THEN j + 1
  ELSE f[j + 1]

LEMMA QuotedExists ==
  ASSUME NEW t, Len(t) \in Nat, NEW quote
  PROVE  \E f : f = [j \in Position |-> QuotedAt(t, quote, f, j)]
<1> DEFINE n == Len(t)
           next == [j \in 1..n |-> IF Pair(t, j, quote) THEN j + 2 ELSE j + 1]
           base == [j \in Position |-> j]
           use == [j \in 1..n |-> [y \in Position |->
                     IF Pair(t, j, quote) THEN y ELSE IF t[j] = quote THEN j + 1 ELSE y]]
<1>1. /\ base \in [Position -> Position] /\ next \in [1..n -> Position]
      /\ \A i \in 1..n : next[i] > i
      /\ use \in [1..n -> [Position -> Position]]
  <2> HIDE DEF Pair
  <2>1. \A j \in 1..n : j + 1 \in Position /\ j + 2 \in Position /\ j + 1 > j /\ j + 2 > j
    BY DEF Position
  <2> QED BY <2>1
<1>0. n \in Nat
  OBVIOUS
<1> HIDE DEF n, next, base, use
<1>2. PICK f \in [Position -> Position] :
        \A i \in Position : f[i] = IF i > n THEN base[i] ELSE use[i][f[next[i]]]
  <2>1. Scanning(n, Position, base, next, use)
    BY <1>0, <1>1 DEF Scanning
  <2> QED BY <2>1, Scan
<1>3. ASSUME NEW i \in Position PROVE f[i] = QuotedAt(t, quote, f, i)
  <2>1. CASE i > n
    BY <1>2, <2>1 DEF QuotedAt, base, n
  <2>2. CASE ~(i > n)
    <3>1. i \in 1..n
      BY <1>0, <2>2 DEF Position
    <3>2. next[i] \in Position /\ f[next[i]] \in Position
      BY <1>1, <3>1
    <3>3. use[i][f[next[i]]] = IF Pair(t, i, quote) THEN f[next[i]]
                               ELSE IF t[i] = quote THEN i + 1 ELSE f[next[i]]
      BY <3>1, <3>2 DEF use
    <3>4. next[i] = IF Pair(t, i, quote) THEN i + 2 ELSE i + 1
      BY <3>1 DEF next
    <3> HIDE DEF Pair
    <3> QED BY <1>2, <2>2, <3>3, <3>4 DEF QuotedAt, n
  <2> QED BY <2>1, <2>2
<1> HIDE DEF QuotedAt
<1>4. f = [j \in Position |-> QuotedAt(t, quote, f, j)]
  BY <1>3
<1> QED BY <1>4

\* Where it goes on is behind.
LEMMA Quoted ==
  ASSUME NEW t, Len(t) \in Nat, NEW quote
  PROVE  \E f : /\ \A i : SkipQuoted(t, i, quote) = f[i + 1]
                /\ \A j \in Position : f[j] = QuotedAt(t, quote, f, j)
                /\ \A j \in Position : f[j] \in Position /\ f[j] >= j
<1> DEFINE f == CHOOSE g : g = [j \in Position |-> QuotedAt(t, quote, g, j)]
<1>1. f = [j \in Position |-> QuotedAt(t, quote, f, j)]
  BY QuotedExists
<1>2. \A i : SkipQuoted(t, i, quote) = f[i + 1]
  BY DEF SkipQuoted, QuotedAt, Pair
<1> HIDE DEF f
<1>3. \A j \in Position : f[j] = QuotedAt(t, quote, f, j)
  BY <1>1
<1> DEFINE P == {j \in Position : f[j] \in Position /\ f[j] >= j}
<1>4. ASSUME NEW j \in Position, j > Len(t) \/ \A k \in Position : k > j => k \in P PROVE j \in P
  <2>1. j + 1 \in Position /\ j + 2 \in Position /\ j + 1 > j /\ j + 2 > j /\ j >= j
    BY DEF Position
  <2>2. f[j] \in {j, j + 1} \/ (~(j > Len(t)) /\ f[j] \in {f[j + 1], f[j + 2]})
    BY <1>3 DEF QuotedAt
  <2>3. CASE f[j] \in {j, j + 1}
    <3>1. f[j] = j \/ f[j] = j + 1
      BY <2>3
    <3>2. f[j] \in Position /\ f[j] >= j
      BY <2>1, <3>1 DEF Position
    <3> QED BY <3>2
  <2>4. CASE ~(j > Len(t)) /\ f[j] \in {f[j + 1], f[j + 2]}
    <3>1. j + 1 \in P /\ j + 2 \in P
      BY <1>4, <2>1, <2>4
    <3>2. f[j] \in Position /\ f[j] >= j + 1
      BY <2>4, <3>1 DEF Position
    <3> QED BY <3>2 DEF Position
  <2> QED BY <2>2, <2>3, <2>4
<1>5. \A j \in Position : j \in P
  <2> HIDE DEF P
  <2>1. P \in SUBSET Position
    BY DEF P
  <2>2. \A j \in 1..Len(t) : j \in Position
    BY DEF Position
  <2> QED BY <1>4, <2>1, <2>2, FromTheEnd
<1> QED BY <1>2, <1>3, <1>5

\* The same of SkipBlockComment, at each depth.
CommentOpens(t, j)  == At(t, j, <<"/", "*">>)
CommentCloses(t, j) == At(t, j, <<"*", "/">>)
CommentAt(t, f, j, depth) ==
  IF depth = 0 \/ j > Len(t) THEN j
  ELSE IF CommentOpens(t, j) THEN f[j + 2][depth + 1]
  ELSE IF CommentCloses(t, j) THEN f[j + 2][depth - 1]
  ELSE f[j + 1][depth]

LEMMA CommentExists ==
  ASSUME NEW t, Len(t) \in Nat
  PROVE  \E f : f = [j \in Position |-> [depth \in Nat |-> CommentAt(t, f, j, depth)]]
<1> DEFINE n == Len(t)
           V == [Nat -> Position]
           next == [j \in 1..n |-> IF CommentOpens(t, j) \/ CommentCloses(t, j) THEN j + 2 ELSE j + 1]
           base == [j \in Position |-> [d \in Nat |-> j]]
           deep(j, d) == IF CommentOpens(t, j) THEN d + 1 ELSE IF CommentCloses(t, j) THEN d - 1 ELSE d
           use == [j \in 1..n |-> [y \in V |-> [d \in Nat |-> IF d = 0 THEN j ELSE y[deep(j, d)]]]]
<1>0. n \in Nat
  OBVIOUS
<1>1. \A j, d \in Nat : d # 0 => deep(j, d) \in Nat
  <2> HIDE DEF CommentOpens, CommentCloses
  <2> QED OBVIOUS
<1> HIDE DEF n, deep
<1>2. Scanning(n, V, base, next, use)
  <2>1. \A j \in 1..n : j \in Position /\ j \in Nat /\ j + 1 \in Position /\ j + 2 \in Position
                       /\ j + 1 > j /\ j + 2 > j
    BY DEF Position
  <2>2. next \in [1..n -> Position] /\ \A i \in 1..n : next[i] > i
    <3> HIDE DEF CommentOpens, CommentCloses
    <3> QED BY <2>1
  <2>3. base \in [Position -> V]
    OBVIOUS
  <2>4. ASSUME NEW j \in 1..n, NEW y \in V
        PROVE  [d \in Nat |-> IF d = 0 THEN j ELSE y[deep(j, d)]] \in V
    BY <1>1, <2>1
  <2>5. use \in [1..n -> [V -> V]]
    <3> HIDE DEF V
    <3> QED BY <2>4
  <2> HIDE DEF V, base, next, use
  <2> QED BY <1>0, <2>2, <2>3, <2>5 DEF Scanning
<1>3. PICK f \in [Position -> V] :
        \A i \in Position : f[i] = IF i > n THEN base[i] ELSE use[i][f[next[i]]]
  <2> HIDE DEF V, base, next, use
  <2> QED BY <1>2, Scan
<1>4. ASSUME NEW j \in Position, NEW depth \in Nat PROVE f[j][depth] = CommentAt(t, f, j, depth)
  <2>1. CASE j > n
    <3>1. f[j] = [d \in Nat |-> j]
      BY <1>3, <2>1 DEF base
    <3> QED BY <2>1, <3>1 DEF CommentAt, n
  <2>2. CASE ~(j > n)
    <3>1. j \in 1..n
      BY <1>0, <2>2 DEF Position
    <3>2. next[j] \in Position /\ f[next[j]] \in V
      BY <1>2, <3>1 DEF Scanning
    <3>3. f[j] = [d \in Nat |-> IF d = 0 THEN j ELSE f[next[j]][deep(j, d)]]
      <4> HIDE DEF V
      <4>1. f[j] = use[j][f[next[j]]]
        BY <1>3, <2>2
      <4> QED BY <3>1, <3>2, <4>1 DEF use
    <3>4. next[j] = IF CommentOpens(t, j) \/ CommentCloses(t, j) THEN j + 2 ELSE j + 1
      BY <3>1 DEF next
    <3>5. f[j][depth] = IF depth = 0 THEN j ELSE f[next[j]][deep(j, depth)]
      BY <3>3
    <3> HIDE DEF CommentOpens, CommentCloses, next
    <3> QED BY <2>2, <3>4, <3>5 DEF CommentAt, deep, n
  <2> QED BY <2>1, <2>2
<1>5. \A j \in Position : f[j] = [depth \in Nat |-> CommentAt(t, f, j, depth)]
  <2> TAKE j \in Position
  <2>1. f[j] = [depth \in Nat |-> f[j][depth]]
    OBVIOUS
  <2> HIDE DEF CommentAt
  <2> QED BY <1>4, <2>1
<1>6. f = [j \in Position |-> [depth \in Nat |-> CommentAt(t, f, j, depth)]]
  <2> HIDE DEF CommentAt
  <2> QED BY <1>5
<1> QED BY <1>6

LEMMA Commented ==
  ASSUME NEW t, Len(t) \in Nat, NEW i \in Position
  PROVE  SkipBlockComment(t, i) \in Position /\ SkipBlockComment(t, i) > i
<1> DEFINE f == CHOOSE g : g = [j \in Position |-> [depth \in Nat |-> CommentAt(t, g, j, depth)]]
<1>1. f = [j \in Position |-> [depth \in Nat |-> CommentAt(t, f, j, depth)]]
  BY CommentExists
<1>2. SkipBlockComment(t, i) = f[i + 2][1]
  BY DEF SkipBlockComment, CommentAt, CommentOpens, CommentCloses
<1> HIDE DEF f
<1>3. \A j \in Position : \A depth \in Nat : f[j][depth] = CommentAt(t, f, j, depth)
  <2> TAKE j \in Position
  <2>1. f[j] = [depth \in Nat |-> CommentAt(t, f, j, depth)]
    <3> HIDE DEF CommentAt
    <3> QED BY <1>1
  <2> HIDE DEF CommentAt
  <2> QED BY <2>1
<1> DEFINE P == {j \in Position : \A d \in Nat : f[j][d] \in Position /\ f[j][d] >= j}
<1>4. ASSUME NEW j \in Position, j > Len(t) \/ \A k \in Position : k > j => k \in P PROVE j \in P
  <2>1. j + 1 \in Position /\ j + 2 \in Position /\ j + 1 > j /\ j + 2 > j /\ j >= j
    BY DEF Position
  <2>2. ASSUME NEW d \in Nat PROVE f[j][d] \in Position /\ f[j][d] >= j
    <3>1. \/ f[j][d] = j
          \/ /\ ~(j > Len(t)) /\ d # 0
             /\ f[j][d] \in {f[j + 2][d + 1], f[j + 2][d - 1], f[j + 1][d]}
      BY <1>3 DEF CommentAt
    <3>2. CASE f[j][d] = j
      BY <2>1, <3>2
    <3>3. CASE ~(j > Len(t)) /\ d # 0 /\ f[j][d] \in {f[j + 2][d + 1], f[j + 2][d - 1], f[j + 1][d]}
      <4>1. j + 1 \in P /\ j + 2 \in P
        BY <1>4, <2>1, <3>3
      <4>2. d + 1 \in Nat /\ d - 1 \in Nat
        BY <3>3
      <4>3. /\ f[j + 1][d] \in Position /\ f[j + 1][d] >= j + 1
            /\ \A e \in Nat : f[j + 2][e] \in Position /\ f[j + 2][e] >= j + 2
        BY <4>1
      <4>4. f[j][d] \in Position /\ f[j][d] >= j + 1
        <5>1. \A x : x \in Position /\ x >= j + 2 => x >= j + 1
          BY DEF Position
        <5>2. /\ f[j + 2][d + 1] \in Position /\ f[j + 2][d + 1] >= j + 1
              /\ f[j + 2][d - 1] \in Position /\ f[j + 2][d - 1] >= j + 1
          BY <4>2, <4>3, <5>1
        <5> QED BY <3>3, <4>3, <5>2
      <4> QED BY <4>4 DEF Position
    <3> QED BY <3>1, <3>2, <3>3
  <2> QED BY <2>2
<1>5. \A j \in Position : j \in P
  <2> HIDE DEF P
  <2>1. P \in SUBSET Position
    BY DEF P
  <2>2. \A j \in 1..Len(t) : j \in Position
    BY DEF Position
  <2> QED BY <1>4, <2>1, <2>2, FromTheEnd
<1>6. i + 2 \in Position
  BY DEF Position
<1>7. f[i + 2][1] \in Position /\ f[i + 2][1] >= i + 2
  BY <1>5, <1>6
<1> QED BY <1>2, <1>7 DEF Position

\* Two symbols next to each other.
LEMMA AtPair ==
  ASSUME NEW U, NEW t \in Seq(U), NEW i \in Position, NEW a, NEW b
  PROVE  At(t, i, <<a, b>>) <=> i + 1 <= Len(t) /\ t[i] = a /\ t[i + 1] = b
<1>1. i \in Nat /\ i >= 1 /\ Len(t) \in Nat
  BY DEF Position
<1>2. Len(<<a, b>>) = 2 /\ <<a, b>>[1] = a /\ <<a, b>>[2] = b
  OBVIOUS
<1>3. At(t, i, <<a, b>>) <=> i + 1 <= Len(t) /\ SubSeq(t, i, i + 1) = <<a, b>>
  BY <1>1, <1>2 DEF At
<1>4. ASSUME i + 1 <= Len(t)
      PROVE  SubSeq(t, i, i + 1) = <<a, b>> <=> t[i] = a /\ t[i + 1] = b
  <2>1. /\ SubSeq(t, i, i + 1) \in Seq(U) /\ Len(SubSeq(t, i, i + 1)) = 2
        /\ SubSeq(t, i, i + 1)[1] = t[i] /\ SubSeq(t, i, i + 1)[2] = t[i + 1]
    <3>1. i \in 1..Len(t) /\ i + 1 \in 1..Len(t)
      BY <1>1, <1>4
    <3> QED BY <1>1, <3>1, SubSeqProperties
  <2>2. ASSUME NEW s \in Seq(U), Len(s) = 2 PROVE s = <<a, b>> <=> s[1] = a /\ s[2] = b
    <3>1. s = <<s[1], s[2]>>
      BY <2>2
    <3> QED BY <1>2, <3>1
  <2> QED BY <2>1, <2>2
<1> QED BY <1>3, <1>4

LEMMA Dollared ==
  ASSUME NEW U, NEW t \in Seq(U), NEW i \in 1..Len(t)
  PROVE  SkipDollarQuoted(t, i) \in Position /\ SkipDollarQuoted(t, i) > i
<1> DEFINE j == WordEnd(t, i + 1)
           tag == SubSeq(t, i, j)
           closes == {k \in (j + 1)..Len(t) : At(t, k, tag)}
<1>1. Len(t) \in Nat /\ i \in Nat /\ i >= 1 /\ i + 1 \in Position /\ i + 1 <= Len(t) + 1
  BY DEF Position
<1>2. j \in (i + 1)..(Len(t) + 1)
  BY <1>1, WordBehind
<1> HIDE DEF j
<1>3. i + 1 \in Position /\ Len(t) + 1 \in Position /\ i + 1 > i /\ Len(t) + 1 > i
  BY <1>1 DEF Position
<1>4. ASSUME ~(j > Len(t)), closes # {} PROVE Min(closes) + Len(tag) \in Position /\ Min(closes) + Len(tag) > i
  <2>1. PICK m \in closes : \A k \in closes : m <= k
    <3>1. closes \in SUBSET Nat
      BY <1>1, <1>2
    <3> HIDE DEF closes
    <3> QED BY <1>4, <3>1, Least
  <2>2. Min(closes) \in closes
    <3> HIDE DEF closes
    <3> QED BY <2>1 DEF Min
  <2>3. Min(closes) \in Nat /\ Min(closes) > i
    <3>1. Min(closes) \in (j + 1)..Len(t)
      BY <2>2
    <3> HIDE DEF closes
    <3> QED BY <1>1, <1>2, <3>1
  <2>4. Len(tag) \in Nat
    BY <1>1, <1>2, <1>4
  <2> HIDE DEF closes, tag
  <2> QED BY <1>1, <2>3, <2>4 DEF Position
<1>5. SkipDollarQuoted(t, i) = IF j > Len(t) \/ t[j] # "$" THEN i + 1
                               ELSE IF closes = {} THEN Len(t) + 1
                               ELSE Min(closes) + Len(tag)
  BY DEF SkipDollarQuoted, j
<1> HIDE DEF closes, tag
<1> QED BY <1>3, <1>4, <1>5

\* Every step of a scan goes forward.
LEMMA JumpsForward ==
  ASSUME NEW U, NEW t \in Seq(U), NEW i \in 1..Len(t), NEW rules
  PROVE  Jump(t, i, rules) \in Position /\ Jump(t, i, rules) > i
<1>1. Len(t) \in Nat /\ i \in Nat /\ i >= 1 /\ i <= Len(t) /\ i \in Position /\ i + 1 \in Position
      /\ i + 1 > i
  BY DEF Position
<1>2. SkipQuoted(t, i, t[i]) \in Position /\ SkipQuoted(t, i, t[i]) > i
  <2>1. SkipQuoted(t, i, t[i]) \in Position /\ SkipQuoted(t, i, t[i]) >= i + 1
    BY <1>1, Quoted
  <2> QED BY <1>1, <2>1 DEF Position
<1>3. SkipUntil(t, i + 1, "]") \in Position /\ SkipUntil(t, i + 1, "]") > i
  <2> DEFINE k == From(t, i + 1, {"]"})
  <2>1. k \in (i + 1)..(Len(t) + 1)
    BY <1>1, FromBehind
  <2>2. SkipUntil(t, i + 1, "]") = Min({k, Len(t)}) + 1
    BY DEF SkipUntil
  <2> HIDE DEF k
  <2>3. Min({k, Len(t)}) \in Nat /\ Min({k, Len(t)}) >= i
    <3>1. \E m \in {k, Len(t)} : \A x \in {k, Len(t)} : m <= x
      BY <1>1, <2>1
    <3>2. Min({k, Len(t)}) \in {k, Len(t)}
      BY <3>1 DEF Min
    <3> QED BY <1>1, <2>1, <3>2
  <2> QED BY <1>1, <2>2, <2>3 DEF Position
<1>4. ASSUME t[i] # "\n" PROVE SkipLineComment(t, i) \in Position /\ SkipLineComment(t, i) > i
  <2>1. /\ SkipLineComment(t, i) \in i..(Len(t) + 1)
        /\ SkipLineComment(t, i) <= Len(t) => t[SkipLineComment(t, i)] = "\n"
    <3>1. i <= Len(t) + 1
      BY <1>1
    <3> QED BY <1>1, <3>1, FromBehind DEF SkipLineComment
  <2>2. SkipLineComment(t, i) # i
    BY <1>1, <1>4, <2>1
  <2> QED BY <1>1, <2>1, <2>2 DEF Position
<1>5. SkipBlockComment(t, i) \in Position /\ SkipBlockComment(t, i) > i
  BY <1>1, Commented
<1>6. SkipDollarQuoted(t, i) \in Position /\ SkipDollarQuoted(t, i) > i
  BY Dollared
<1>7. At(t, i, <<"-", "-">>) \/ (t[i] = "#" /\ rules.hashes) => t[i] # "\n"
  BY <1>1, AtPair
<1>8. \/ Jump(t, i, rules) \in {SkipQuoted(t, i, t[i]), SkipUntil(t, i + 1, "]"),
                                SkipBlockComment(t, i), SkipDollarQuoted(t, i), i + 1}
      \/ Jump(t, i, rules) = SkipLineComment(t, i) /\ t[i] # "\n"
  <2>1. CASE t[i] \in rules.quotes
    BY <1>7, <2>1 DEF Jump
  <2>2. CASE t[i] \notin rules.quotes
    BY <1>7, <2>2 DEF Jump
  <2> QED BY <2>1, <2>2
<1> QED BY <1>1, <1>2, <1>3, <1>4, <1>5, <1>6, <1>8

-----------------------------------------------------------------------------
(* The positions a scan stops at.                                          *)

StopsAt(t, rules, f, i) == IF i > Len(t) THEN {} ELSE {i} \cup f[Jump(t, i, rules)]

LEMMA StopsExist ==
  ASSUME NEW U, NEW t \in Seq(U), NEW rules
  PROVE  \E f : f = [i \in Position |-> StopsAt(t, rules, f, i)]
<1> DEFINE n == Len(t)
           V == SUBSET Position
           next == [i \in 1..n |-> Jump(t, i, rules)]
           base == [i \in Position |-> {}]
           use == [i \in 1..n |-> [y \in V |-> {i} \cup y]]
<1>0. n \in Nat
  OBVIOUS
<1>1. \A i \in 1..n : next[i] \in Position /\ next[i] > i /\ next[i] = Jump(t, i, rules)
  BY JumpsForward
<1>2. Scanning(n, V, base, next, use)
  <2>1. next \in [1..n -> Position]
    BY <1>1
  <2>2. use \in [1..n -> [V -> V]] /\ base \in [Position -> V]
    <3>1. \A i \in 1..n : i \in Position
      BY DEF Position
    <3>2. ASSUME NEW i \in 1..n, NEW y \in V PROVE {i} \cup y \in V
      BY <3>1
    <3>3. {} \in V
      OBVIOUS
    <3> HIDE DEF V
    <3> QED BY <3>2, <3>3
  <2> HIDE DEF n, V, next, base, use
  <2> QED BY <1>0, <1>1, <2>1, <2>2 DEF Scanning
<1>3. PICK f \in [Position -> V] :
        \A i \in Position : f[i] = IF i > n THEN base[i] ELSE use[i][f[next[i]]]
  <2> HIDE DEF n, V, next, base, use
  <2> QED BY <1>2, Scan
<1> HIDE DEF n, next
<1>4. ASSUME NEW i \in Position PROVE f[i] = StopsAt(t, rules, f, i)
  <2>1. CASE i > n
    BY <1>3, <2>1 DEF StopsAt, n
  <2>2. CASE ~(i > n)
    <3>1. i \in 1..n
      BY <1>0, <2>2 DEF Position
    <3>2. next[i] \in Position /\ next[i] = Jump(t, i, rules) /\ f[next[i]] \in V
      BY <1>1, <3>1
    <3> DEFINE y == f[next[i]]
    <3>3. f[i] = use[i][y] /\ y \in V
      BY <1>3, <2>2, <3>2
    <3>4. use[i][y] = {i} \cup y
      <4> HIDE DEF y, V
      <4> QED BY <3>1, <3>3
    <3> QED BY <2>2, <3>2, <3>3, <3>4 DEF StopsAt, n
  <2> QED BY <2>1, <2>2
<1> HIDE DEF StopsAt
<1>5. f = [i \in Position |-> StopsAt(t, rules, f, i)]
  BY <1>4
<1> QED BY <1>5

\* It stops nowhere but where it starts and where it is led from there.
LEMMA StopsAmong ==
  ASSUME NEW U, NEW t \in Seq(U), NEW rules, NEW G \in SUBSET Position, 1 \in G,
         \A i \in G : i <= Len(t) => Jump(t, i, rules) \in G
  PROVE  Stops(t, rules) \subseteq {i \in G : i <= Len(t)}
<1> DEFINE H == {i \in G : i <= Len(t)}
           f == CHOOSE g : g = [i \in Position |-> StopsAt(t, rules, g, i)]
<1>1. f = [i \in Position |-> StopsAt(t, rules, f, i)]
  BY StopsExist
<1>2. Stops(t, rules) = f[1]
  BY DEF Stops, StopsAt
<1> HIDE DEF f
<1>3. \A i \in Position : f[i] = StopsAt(t, rules, f, i)
  BY <1>1
<1> DEFINE P == {i \in Position : i \in G => f[i] \subseteq H}
<1>4. ASSUME NEW i \in Position, i > Len(t) PROVE i \in P
  BY <1>3, <1>4 DEF StopsAt
<1>5. ASSUME NEW i \in 1..Len(t), \A k \in Position : k > i => k \in P PROVE i \in P
  <2>1. i \in Position /\ ~(i > Len(t)) /\ i <= Len(t)
    BY DEF Position
  <2>2. SUFFICES ASSUME i \in G PROVE f[i] \subseteq H
    BY <2>1
  <2>3. Jump(t, i, rules) \in Position /\ Jump(t, i, rules) > i
    BY JumpsForward
  <2>4. Jump(t, i, rules) \in G /\ Jump(t, i, rules) \in P
    BY <1>5, <2>1, <2>2, <2>3
  <2>5. f[i] = {i} \cup f[Jump(t, i, rules)]
    BY <1>3, <2>1 DEF StopsAt
  <2> QED BY <2>2, <2>4, <2>5
<1>6. \A i \in Position : i \in P
  <2> HIDE DEF P
  <2>1. P \in SUBSET Position /\ Len(t) \in Nat
    BY DEF P
  <2> QED BY <1>4, <1>5, <2>1, FromTheEnd
<1> QED BY <1>2, <1>6

-----------------------------------------------------------------------------
(* A name in quotes.                                                       *)

Glued(seqs, f, i) == IF i = 1 THEN seqs[i] ELSE f[i - 1] \o seqs[i]

LEMMA FlattenExists ==
  ASSUME NEW seqs, NEW len \in Nat
  PROVE  \E f : f = [i \in 1..len |-> Glued(seqs, f, i)]
<1> DEFINE Glues(m, f) == f = [i \in 1..m |-> Glued(seqs, f, i)]
           T == {m \in Nat : ~ \E f : Glues(m, f)}
<1>1. SUFFICES ASSUME T # {} PROVE FALSE
  OBVIOUS
<1>2. PICK m \in T : \A k \in T : m <= k
  <2> HIDE DEF T
  <2>1. T \in SUBSET Nat
    BY DEF T
  <2> QED BY <1>1, <2>1, Least
<1>3. CASE m = 0
  <2>1. \A f : [i \in 1..0 |-> Glued(seqs, f, i)] = <<>>
    OBVIOUS
  <2>2. Glues(0, <<>>)
    BY <2>1
  <2> QED BY <1>2, <1>3, <2>2
<1>4. CASE m # 0
  <2>1. PICK f : Glues(m - 1, f)
    <3>1. m - 1 \in Nat /\ ~(m <= m - 1)
      BY <1>2, <1>4
    <3>2. m - 1 \notin T
      <4> HIDE DEF T
      <4> QED BY <1>2, <3>1
    <3> HIDE DEF Glues
    <3> QED BY <3>1, <3>2
  <2> DEFINE g == [i \in 1..m |-> IF i = m THEN Glued(seqs, f, m) ELSE f[i]]
  <2>2. \A i \in 1..m : Glued(seqs, g, i) = Glued(seqs, f, i)
    BY <1>2, <1>4 DEF Glued
  <2>3. \A i \in 1..(m - 1) : f[i] = Glued(seqs, f, i)
    BY <2>1
  <2>4. \A i \in 1..m : g[i] = Glued(seqs, g, i)
    <3> HIDE DEF Glued
    <3> QED BY <1>2, <2>2, <2>3
  <2>5. Glues(m, g)
    <3> HIDE DEF Glued
    <3> QED BY <2>4
  <2> QED BY <1>2, <2>5
<1> QED BY <1>3, <1>4

\* What is glued together is glued part by part.
Parts(seqs, g) ==
  /\ g[0] = <<>>
  /\ \A k \in 1..Len(seqs) : g[k] = g[k - 1] \o seqs[k]
  /\ FlattenSeq(seqs) = g[Len(seqs)]

LEMMA Flattened ==
  ASSUME NEW U, NEW seqs \in Seq(Seq(U))
  PROVE  \E g : Parts(seqs, g) /\ \A k \in 0..Len(seqs) : g[k] \in Seq(U)
<1> DEFINE n == Len(seqs)
           f == CHOOSE h : h = [i \in 1..n |-> Glued(seqs, h, i)]
           g == [k \in 0..n |-> IF k = 0 THEN <<>> ELSE f[k]]
<1>1. n \in Nat /\ \A k \in 1..n : seqs[k] \in Seq(U)
  OBVIOUS
<1>2. f = [i \in 1..n |-> Glued(seqs, f, i)]
  BY <1>1, FlattenExists
<1>3. n = 0 => seqs = <<>>
  OBVIOUS
<1>4. FlattenSeq(seqs) = IF n = 0 THEN seqs ELSE f[n]
  BY DEF FlattenSeq, Glued
<1> HIDE DEF f, n
<1>5. \A i \in 1..n : f[i] = Glued(seqs, f, i)
  BY <1>2
<1>6. FlattenSeq(seqs) = g[n]
  BY <1>1, <1>3, <1>4
<1>7. ASSUME NEW k \in 1..n PROVE g[k] = g[k - 1] \o seqs[k]
  <2>1. g[k] = f[k] /\ (k # 1 => g[k - 1] = f[k - 1]) /\ (k = 1 => g[k - 1] = <<>>)
    BY <1>1
  <2>2. k = 1 => <<>> \o seqs[k] = seqs[k]
    BY <1>1
  <2> HIDE DEF g
  <2> QED BY <1>5, <2>1, <2>2 DEF Glued
<1>8. g[0] = <<>>
  BY <1>1
<1> HIDE DEF g
<1>9. \A k \in 0..n : g[k] \in Seq(U)
  <2> DEFINE T == {k \in Nat : k <= n /\ g[k] \notin Seq(U)}
  <2>1. SUFFICES ASSUME T # {} PROVE FALSE
    OBVIOUS
  <2>2. PICK k \in T : \A m \in T : k <= m
    <3> HIDE DEF T
    <3>1. T \in SUBSET Nat
      BY DEF T
    <3> QED BY <2>1, <3>1, Least
  <2>0. k \in Nat /\ k <= n /\ g[k] \notin Seq(U)
    OBVIOUS
  <2>3. k # 0
    <3>1. <<>> \in Seq(U)
      OBVIOUS
    <3> QED BY <1>8, <2>0, <3>1, Zenon
  <2>4. k \in 1..n /\ k - 1 \in Nat /\ ~(k <= k - 1) /\ k - 1 <= n
    BY <1>1, <2>3
  <2>5. g[k - 1] \in Seq(U)
    <3>1. k - 1 \notin T
      <4> HIDE DEF T
      <4> QED BY <2>2, <2>4
    <3> QED BY <2>4, <3>1
  <2>6. g[k] \in Seq(U)
    <3>1. g[k] = g[k - 1] \o seqs[k]
      BY <1>7, <2>4
    <3>2. seqs[k] \in Seq(U)
      BY <1>1, <2>4
    <3> QED BY <2>5, <3>1, <3>2
  <2> QED BY <2>0, <2>6
<1>10. Parts(seqs, g)
  BY <1>6, <1>7, <1>8 DEF Parts, n
<1> QED BY <1>9, <1>10 DEF n

LEMMA Glue ==
  ASSUME NEW U, NEW s \in Seq(U), NEW u \in Seq(U)
  PROVE  /\ s \o u \in Seq(U) /\ Len(s \o u) = Len(s) + Len(u)
         /\ \A m \in 1..Len(s) : (s \o u)[m] = s[m]
         /\ \A m \in 1..Len(u) : (s \o u)[Len(s) + m] = u[m]
  OBVIOUS

\* The first parts are where the whole begins.
BeginsWith(s, u) == Len(u) <= Len(s) /\ \A m \in 1..Len(u) : s[m] = u[m]

LEMMA Beginnings ==
  ASSUME NEW U, NEW seqs \in Seq(Seq(U)), NEW g, Parts(seqs, g),
         \A k \in 0..Len(seqs) : g[k] \in Seq(U)
  PROVE  \A k \in 0..Len(seqs) : BeginsWith(FlattenSeq(seqs), g[k])
<1> DEFINE n == Len(seqs)
           all == FlattenSeq(seqs)
           Begins(k) == Len(g[k]) <= Len(all) /\ \A m \in 1..Len(g[k]) : all[m] = g[k][m]
           P == {i \in Position : i <= n + 1 => Begins(i - 1)}
<1>1. n \in Nat /\ all = g[n] /\ \A k \in 0..n : g[k] \in Seq(U) /\ Len(g[k]) \in Nat
  <2>1. n \in Nat /\ all = g[n]
    BY DEF Parts
  <2>2. \A s \in Seq(U) : Len(s) \in Nat
    OBVIOUS
  <2> QED BY <2>1, <2>2
<1>2. \A k \in 1..n : g[k] = g[k - 1] \o seqs[k] /\ seqs[k] \in Seq(U)
  <2>1. \A k \in 1..n : g[k] = g[k - 1] \o seqs[k]
    BY Zenon DEF Parts
  <2>2. \A k \in 1..n : seqs[k] \in Seq(U)
    OBVIOUS
  <2> QED BY <2>1, <2>2
<1> HIDE DEF n, all
<1>3. Begins(n)
  BY <1>1
<1>4. ASSUME NEW i \in Position, i > n + 1 PROVE i \in P
  BY <1>1, <1>4 DEF Position
<1>5. ASSUME NEW i \in 1..(n + 1), \A k \in Position : k > i => k \in P PROVE i \in P
  <2>1. i \in Position /\ i + 1 \in Position /\ i + 1 > i /\ i \in Nat
    BY DEF Position
  <2>2. CASE i = n + 1
    BY <1>1, <1>3, <2>1, <2>2
  <2>3. CASE i # n + 1
    <3>1. i \in 1..n /\ i - 1 \in 0..n /\ i + 1 <= n + 1 /\ (i + 1) - 1 = i
      BY <1>1, <2>3
    <3>2. Begins(i)
      <4>1. i + 1 \in P
        BY <1>5, <2>1
      <4>2. Begins((i + 1) - 1)
        <5> HIDE DEF Begins
        <5> QED BY <3>1, <4>1
      <4> QED BY <3>1, <4>2
    <3> DEFINE s == g[i - 1]
               u == seqs[i]
    <3>3. s \in Seq(U) /\ u \in Seq(U) /\ g[i] = s \o u
      BY <1>1, <1>2, <3>1
    <3> HIDE DEF s, u
    <3>4. Len(g[i]) = Len(s) + Len(u) /\ \A m \in 1..Len(s) : g[i][m] = s[m]
      BY <3>3, Glue
    <3>5. Len(s) \in Nat /\ Len(u) \in Nat /\ Len(all) \in Nat
      BY <1>1, <3>3
    <3>6. Len(s) <= Len(all) /\ \A m \in 1..Len(s) : all[m] = s[m]
      BY <3>2, <3>4, <3>5
    <3> QED BY <2>1, <3>6 DEF s
  <2> QED BY <2>2, <2>3
<1>6. \A i \in Position : i \in P
  <2> DEFINE m == n + 1
  <2> HIDE DEF P
  <2>1. m \in Nat /\ P \in SUBSET Position
    BY <1>1 DEF P
  <2>2. \A i \in Position : i > m => i \in P
    BY <1>4
  <2>3. \A i \in 1..m : (\A k \in Position : k > i => k \in P) => i \in P
    BY <1>5
  <2> HIDE DEF m
  <2> QED BY <2>1, <2>2, <2>3, FromTheEnd
<1>7. ASSUME NEW k \in 0..n PROVE Begins(k)
  <2>1. k + 1 \in Position /\ k + 1 <= n + 1 /\ (k + 1) - 1 = k
    BY <1>1 DEF Position
  <2>2. k + 1 \in P
    BY <1>6, <2>1
  <2>3. Begins((k + 1) - 1)
    <3> HIDE DEF Begins
    <3> QED BY <2>1, <2>2
  <2> QED BY <2>1, <2>3
<1> QED BY <1>7 DEF BeginsWith, n, all

Doubled(name, c) == [i \in DOMAIN name |-> IF name[i] = c THEN <<c, c>> ELSE <<name[i]>>]

\* A name, its quotes doubled, that stands in quotes at a position of a text.
Stands(t, p, name, open, close) ==
  LET d == Doubling(name, close)
  IN  /\ p + Len(d) + 1 <= Len(t)
      /\ t[p] = open
      /\ \A m \in 1..Len(d) : t[p + m] = d[m]
      /\ t[p + Len(d) + 1] = close
      /\ p + Len(d) + 2 <= Len(t) => t[p + Len(d) + 2] # close

LEMMA DoubledParts ==
  ASSUME NEW U, NEW c, NEW name \in Seq(U)
  PROVE  /\ Doubled(name, c) \in Seq(Seq(U \cup {c})) /\ Len(Doubled(name, c)) = Len(name)
         /\ Doubling(name, c) = FlattenSeq(Doubled(name, c))
         /\ Doubling(name, c) \in Seq(U \cup {c})
<1> DEFINE d == Doubled(name, c)
           V == U \cup {c}
<1>1. \A i \in DOMAIN name : <<c, c>> \in Seq(V) /\ <<name[i]>> \in Seq(V)
  OBVIOUS
<1>2. \A i \in DOMAIN name : d[i] \in Seq(V)
  BY <1>1 DEF Doubled
<1>3. Len(name) \in Nat /\ DOMAIN name = 1..Len(name) /\ DOMAIN d = DOMAIN name
  BY DEF Doubled
<1>4. d = [i \in 1..Len(name) |-> d[i]]
  BY <1>3 DEF Doubled
<1> HIDE DEF d, V
<1>5. d \in Seq(Seq(V)) /\ Len(d) = Len(name)
  BY <1>2, <1>3, <1>4
<1>6. Doubling(name, c) = FlattenSeq(d)
  BY DEF Doubling, Doubled, d
<1>7. FlattenSeq(d) \in Seq(V)
  <2>1. PICK g : Parts(d, g) /\ \A k \in 0..Len(d) : g[k] \in Seq(V)
    BY <1>5, Flattened
  <2>2. Len(d) \in 0..Len(d)
    BY <1>3, <1>5
  <2> QED BY <2>1, <2>2 DEF Parts
<1> QED BY <1>5, <1>6, <1>7 DEF d, V

\* Where the quote is not in it, nothing is doubled.
LEMMA NothingDoubled ==
  ASSUME NEW U, NEW c, c \notin U, NEW name \in Seq(U)
  PROVE  Doubling(name, c) \in Seq(U)
<1> DEFINE d == Doubled(name, c)
<1>1. \A i \in DOMAIN name : d[i] = <<name[i]>> /\ <<name[i]>> \in Seq(U)
  BY DEF Doubled
<1>2. Len(name) \in Nat /\ DOMAIN name = 1..Len(name) /\ DOMAIN d = DOMAIN name
  BY DEF Doubled
<1>3. d = [i \in 1..Len(name) |-> d[i]]
  BY <1>2 DEF Doubled
<1> HIDE DEF d
<1>4. d \in Seq(Seq(U))
  <2>1. \A i \in 1..Len(name) : d[i] \in Seq(U)
    BY <1>1, <1>2
  <2> QED BY <1>2, <1>3, <2>1
<1>5. PICK g : Parts(d, g) /\ \A k \in 0..Len(d) : g[k] \in Seq(U)
  BY <1>4, Flattened
<1>6. Len(d) \in 0..Len(d)
  BY <1>4
<1>7. FlattenSeq(d) \in Seq(U)
  BY <1>5, <1>6 DEF Parts
<1> QED BY <1>7 DEF Doubling, Doubled, d

\* SkipQuoted steps over the whole name.
LEMMA SkipsQuotedName ==
  ASSUME NEW W, NEW t \in Seq(W), NEW p \in Position, NEW U, NEW name \in Seq(U), NEW q,
         q # "\\", "\\" \notin U, Stands(t, p, name, q, q)
  PROVE  SkipQuoted(t, p, q) = p + Len(Doubling(name, q)) + 2
<1> DEFINE seqs == Doubled(name, q)
           V == U \cup {q}
           d == Doubling(name, q)
           n == Len(name)
<1>1. /\ seqs \in Seq(Seq(V)) /\ Len(seqs) = n /\ d = FlattenSeq(seqs) /\ d \in Seq(V)
      /\ n \in Nat /\ Len(d) \in Nat /\ Len(t) \in Nat
      /\ \A k \in 1..n : seqs[k] = IF name[k] = q THEN <<q, q>> ELSE <<name[k]>>
  <2>1. seqs \in Seq(Seq(V)) /\ Len(seqs) = n /\ d = FlattenSeq(seqs) /\ d \in Seq(V)
    BY DoubledParts
  <2>2. \A k \in 1..n : seqs[k] = IF name[k] = q THEN <<q, q>> ELSE <<name[k]>>
    BY DEF Doubled
  <2> HIDE DEF seqs, d
  <2> QED BY <2>1, <2>2
<1>2. \A k \in 1..n : name[k] \in U
  OBVIOUS
<1>3. /\ p + Len(d) + 1 <= Len(t)
      /\ \A m \in 1..Len(d) : t[p + m] = d[m]
      /\ t[p + Len(d) + 1] = q
      /\ p + Len(d) + 2 <= Len(t) => t[p + Len(d) + 2] # q
  BY DEF Stands
<1> HIDE DEF seqs, d, n, V
<1>4. PICK g : Parts(seqs, g) /\ \A k \in 0..n : g[k] \in Seq(V)
  BY <1>1, Flattened
<1>5. \A k \in 0..n : Len(g[k]) \in Nat /\ Len(g[k]) <= Len(d)
                      /\ \A m \in 1..Len(g[k]) : d[m] = g[k][m]
  <2>1. \A k \in 0..n : Len(g[k]) <= Len(d) /\ \A m \in 1..Len(g[k]) : d[m] = g[k][m]
    <3>1. \A k \in 0..Len(seqs) : g[k] \in Seq(V)
      BY <1>1, <1>4
    <3>2. seqs \in Seq(Seq(V)) /\ Parts(seqs, g)
      BY <1>1, <1>4
    <3>3. \A k \in 0..Len(seqs) : BeginsWith(FlattenSeq(seqs), g[k])
      BY <3>1, <3>2, Beginnings
    <3> QED BY <1>1, <3>3 DEF BeginsWith
  <2>2. \A s \in Seq(V) : Len(s) \in Nat
    OBVIOUS
  <2> QED BY <1>4, <2>1, <2>2
<1>6. PICK e : /\ \A i : SkipQuoted(t, i, q) = e[i + 1]
               /\ \A j \in Position : e[j] = QuotedAt(t, q, e, j)
  <2>1. Len(t) \in Nat
    OBVIOUS
  <2> QED BY <2>1, Quoted
<1>7. p \in Nat /\ p >= 1
  BY DEF Position
<1> DEFINE r(k) == p + 1 + Len(g[k])
<1>8. ASSUME NEW k \in 1..n PROVE e[r(k - 1)] = e[r(k)]
  <2> DEFINE s == g[k - 1]
             u == seqs[k]
             i == p + 1 + Len(s)
  <2>1. s \in Seq(V) /\ u \in Seq(V) /\ g[k] = s \o u
    <3>1. k \in 1..Len(seqs) /\ k - 1 \in 0..n
      BY <1>1
    <3>2. g[k] = g[k - 1] \o seqs[k]
      BY <1>4, <3>1 DEF Parts
    <3> QED BY <1>1, <1>4, <3>1, <3>2
  <2>2. u = IF name[k] = q THEN <<q, q>> ELSE <<name[k]>>
    BY <1>1
  <2> HIDE DEF s, u
  <2>3. /\ Len(g[k]) = Len(s) + Len(u) /\ Len(s) \in Nat /\ Len(u) \in Nat
        /\ \A m \in 1..Len(u) : g[k][Len(s) + m] = u[m]
    BY <2>1, Glue
  <2>4. r(k) = i + Len(u) /\ r(k - 1) = i /\ i \in Nat /\ i >= 1
    <3>1. r(k - 1) = i
      BY DEF s
    <3>2. r(k) = p + 1 + (Len(s) + Len(u))
      BY <2>3
    <3> HIDE DEF r
    <3> QED BY <1>7, <2>3, <3>1, <3>2
  <2>5. ASSUME NEW m \in 1..Len(u)
        PROVE  t[i + m - 1] = u[m] /\ i + m - 1 < Len(t)
    <3>1. Len(s) + m \in 1..Len(g[k]) /\ k \in 0..n
      BY <1>1, <2>3
    <3>2. d[Len(s) + m] = u[m] /\ Len(s) + m \in 1..Len(d)
      BY <1>1, <1>5, <2>3, <3>1
    <3>3. i + m - 1 = p + (Len(s) + m)
      BY <1>7, <2>3
    <3>4. i + m - 1 < Len(t)
      BY <1>1, <1>3, <1>7, <3>2, <3>3
    <3> QED BY <1>3, <3>2, <3>3, <3>4
  <2>6. i \in Position /\ i \in Nat
    <3> HIDE DEF i, r
    <3> QED BY <2>4 DEF Position
  <2>7. CASE name[k] = q
    <3>1. Len(u) = 2 /\ u[1] = q /\ u[2] = q
      BY <2>2, <2>7
    <3> HIDE DEF i, r
    <3>2. t[i] = q /\ t[i + 1] = q /\ i + 1 <= Len(t) /\ ~(i > Len(t))
      <4>1. i + 1 - 1 = i /\ i + 2 - 1 = i + 1
        BY <2>6
      <4>2. t[i + 1 - 1] = q /\ t[i + 2 - 1] = q /\ i + 2 - 1 < Len(t)
        BY <2>5, <3>1
      <4> QED BY <1>1, <2>6, <4>1, <4>2
    <3>3. At(t, i, <<q, q>>)
      BY <2>6, <3>2, AtPair
    <3>4. e[i] = e[i + 2]
      BY <1>6, <2>6, <3>2, <3>3 DEF QuotedAt, Pair
    <3>5. r(k) = i + 2
      BY <2>4, <3>1
    <3> QED BY <2>4, <3>4, <3>5
  <2>8. CASE name[k] # q
    <3>1. Len(u) = 1 /\ u[1] = name[k]
      BY <2>2, <2>8
    <3> HIDE DEF i, r
    <3>2. t[i] = name[k] /\ ~(i > Len(t))
      <4>1. i + 1 - 1 = i
        BY <2>6
      <4>2. t[i + 1 - 1] = name[k] /\ i + 1 - 1 < Len(t)
        BY <2>5, <3>1
      <4> QED BY <1>1, <2>6, <4>1, <4>2
    <3>3. t[i] # q /\ t[i] # "\\"
      BY <1>2, <2>8, <3>2
    <3>4. ~Pair(t, i, q)
      BY <2>6, <3>3, AtPair DEF Pair
    <3>5. e[i] = e[i + 1]
      BY <1>6, <2>6, <3>2, <3>3, <3>4 DEF QuotedAt
    <3>6. r(k) = i + 1
      BY <2>4, <3>1
    <3> QED BY <2>4, <3>5, <3>6
  <2> QED BY <2>7, <2>8
<1>9. \A k \in 0..n : e[p + 1] = e[r(k)]
  <2> DEFINE T == {k \in Nat : k <= n /\ e[p + 1] # e[r(k)]}
  <2>1. SUFFICES ASSUME T # {} PROVE FALSE
    OBVIOUS
  <2>2. PICK k \in T : \A m \in T : k <= m
    <3> HIDE DEF T
    <3>1. T \in SUBSET Nat
      BY DEF T
    <3> QED BY <2>1, <3>1, Least
  <2>3. k \in Nat /\ k <= n /\ e[p + 1] # e[r(k)]
    OBVIOUS
  <2> HIDE DEF T, r
  <2>4. k # 0
    <3>1. Len(g[0]) = 0
      BY <1>4 DEF Parts
    <3>2. r(0) = p + 1
      BY <1>7, <3>1 DEF r
    <3> QED BY <2>3, <3>2
  <2>5. k \in 1..n /\ k - 1 \in Nat /\ ~(k <= k - 1) /\ k - 1 <= n
    BY <1>1, <2>3, <2>4
  <2>6. e[p + 1] = e[r(k - 1)]
    BY <2>2, <2>5 DEF T
  <2> QED BY <1>8, <2>3, <2>5, <2>6
<1>10. e[p + 1] = e[p + 1 + Len(d)]
  <2>1. g[n] = d /\ n \in 0..n
    BY <1>1, <1>4 DEF Parts
  <2> QED BY <1>9, <2>1
<1> DEFINE i == p + Len(d) + 1
<1>11. i \in Position /\ i \in Nat /\ ~(i > Len(t)) /\ p + 1 + Len(d) = i /\ i + 1 = p + Len(d) + 2
  BY <1>1, <1>3, <1>7 DEF Position
<1>12. t[i] = q /\ ~(i + 1 <= Len(t) /\ t[i + 1] = q)
  BY <1>3, <1>11
<1> HIDE DEF i, r
<1>13. ~Pair(t, i, q)
  BY <1>11, <1>12, AtPair DEF Pair
<1>14. e[i] = i + 1
  BY <1>6, <1>11, <1>12, <1>13 DEF QuotedAt
<1>15. SkipQuoted(t, p, q) = i + 1
  BY <1>6, <1>10, <1>11, <1>14
<1> QED BY <1>11, <1>15 DEF d

-----------------------------------------------------------------------------
(* The statements the core writes.                                         *)

OpenQuote(dialect) ==
  CASE dialect = "sqlserver" -> "[" [] dialect = "mysql" -> "backtick" [] OTHER -> "\""
CloseQuote(dialect) ==
  CASE dialect = "sqlserver" -> "]" [] dialect = "mysql" -> "backtick" [] OTHER -> "\""

Plain(c) == c \notin {"'", "\"", "backtick", "[", "-", "#", "/", "$", "]"}

LEMMA PlainIsSteppedOver ==
  ASSUME NEW U, NEW t \in Seq(U), NEW i \in 1..Len(t), NEW dialect, Plain(t[i])
  PROVE  Jump(t, i, Splitting(dialect)) = i + 1
<1>1. i \in Position
  BY DEF Position
<1>2. ~At(t, i, <<"-", "-">>) /\ ~At(t, i, <<"/", "*">>)
  BY <1>1, AtPair DEF Plain
<1>3. t[i] \notin Splitting(dialect).quotes
  BY DEF Splitting, Plain
<1> QED BY <1>2, <1>3 DEF Jump, Plain

\* A name has the symbols it has, and the quote it is in.
LEMMA NameIsSteppedOver ==
  ASSUME NEW W, NEW t \in Seq(W), NEW p \in Position, NEW U, NEW name \in Seq(U), NEW dialect,
         IF dialect = "sqlserver" THEN "]" \notin U ELSE "\\" \notin U,
         Stands(t, p, name, OpenQuote(dialect), CloseQuote(dialect))
  PROVE  Jump(t, p, Splitting(dialect)) = p + Len(Doubling(name, CloseQuote(dialect))) + 2
<1> DEFINE d == Doubling(name, CloseQuote(dialect))
<1>1. /\ Len(t) \in Nat /\ p \in Nat /\ p >= 1 /\ Len(d) \in Nat
      /\ t[p] = OpenQuote(dialect) /\ p + Len(d) + 1 <= Len(t)
      /\ t[p + Len(d) + 1] = CloseQuote(dialect)
      /\ \A m \in 1..Len(d) : t[p + m] = d[m]
  <2>1. Len(d) \in Nat
    <3>1. d \in Seq(U \cup {CloseQuote(dialect)})
      BY DoubledParts
    <3> HIDE DEF d
    <3> QED BY <3>1
  <2>2. Len(t) \in Nat /\ p \in Nat /\ p >= 1
    BY DEF Position
  <2> QED BY <2>1, <2>2 DEF Stands
<1>2. CASE dialect = "sqlserver"
  <2>1. CloseQuote(dialect) = "]" /\ OpenQuote(dialect) = "["
    BY <1>2 DEF CloseQuote, OpenQuote
  <2>2. Jump(t, p, Splitting(dialect)) = SkipUntil(t, p + 1, "]")
    <3>1. t[p] \notin Splitting(dialect).quotes /\ Splitting(dialect).brackets
      BY <1>1, <1>2, <2>1 DEF Splitting
    <3>2. ~At(t, p, <<"-", "-">>) /\ ~At(t, p, <<"/", "*">>)
      BY <1>1, <2>1, AtPair
    <3>3. ~Splitting(dialect).hashes /\ ~Splitting(dialect).dollars
      BY <1>2 DEF Splitting
    <3> QED BY <1>1, <2>1, <3>1, <3>2, <3>3 DEF Jump
  <2>3. \A m \in 1..Len(d) : d[m] # "]"
    <3>1. d = Doubling(name, "]") /\ "]" \notin U
      BY <1>2, <2>1
    <3>2. d \in Seq(U)
      BY <3>1, NothingDoubled
    <3> HIDE DEF d
    <3> QED BY <3>1, <3>2
  <2> HIDE DEF d
  <2> DEFINE f == From(t, p + 1, {"]"})
  <2>4. f = p + Len(d) + 1
    <3>1. p + 1 \in Position /\ p + 1 <= Len(t) + 1
      BY <1>1 DEF Position
    <3>2. /\ f \in (p + 1)..(Len(t) + 1) /\ (f <= Len(t) => t[f] \in {"]"})
          /\ \A j \in (p + 1)..Len(t) : t[j] \in {"]"} => f <= j
      BY <1>1, <3>1, FromBehind
    <3> HIDE DEF f
    <3>3. f <= p + Len(d) + 1
      BY <1>1, <2>1, <3>2
    <3>4. SUFFICES ASSUME f < p + Len(d) + 1 PROVE FALSE
      BY <1>1, <3>2, <3>3
    <3>5. f - p \in 1..Len(d) /\ p + (f - p) = f /\ f <= Len(t)
      BY <1>1, <3>2, <3>4
    <3>6. t[f] = d[f - p]
      BY <1>1, <3>5
    <3> QED BY <2>3, <3>2, <3>5, <3>6
  <2>5. SkipUntil(t, p + 1, "]") = Min({f, Len(t)}) + 1
    BY DEF SkipUntil
  <2>6. Min({f, Len(t)}) = f
    <3>1. f <= Len(t) /\ f \in Nat /\ f <= f
      BY <1>1, <2>4
    <3> HIDE DEF f
    <3> QED BY <1>1, <3>1 DEF Min
  <2> HIDE DEF f
  <2> QED BY <1>1, <2>2, <2>4, <2>5, <2>6 DEF d
<1>3. CASE dialect # "sqlserver"
  <2> DEFINE q == CloseQuote(dialect)
  <2>1. OpenQuote(dialect) = q /\ q # "\\" /\ "\\" \notin U
    BY <1>3 DEF CloseQuote, OpenQuote
  <2>2. q \in Splitting(dialect).quotes /\ ~Splitting(dialect).brackets
    BY <1>3 DEF CloseQuote, Splitting
  <2>3. q \in {"\"", "backtick"}
    BY <1>3 DEF CloseQuote
  <2> HIDE DEF q
  <2>4. t[p] = q
    BY <1>1, <2>1
  <2>5. Jump(t, p, Splitting(dialect)) = SkipQuoted(t, p, q)
    <3>0. t[p] # "-" /\ t[p] # "/"
      BY <2>3, <2>4
    <3>1. ~At(t, p, <<"-", "-">>) /\ ~At(t, p, <<"/", "*">>)
      BY <3>0, AtPair
    <3> QED BY <2>2, <2>3, <2>4, <3>1 DEF Jump
  <2>6. Stands(t, p, name, q, q)
    BY <2>1 DEF q
  <2>7. SkipQuoted(t, p, q) = p + Len(Doubling(name, q)) + 2
    BY <2>1, <2>6, SkipsQuotedName
  <2> QED BY <2>5, <2>7 DEF q
<1> QED BY <1>2, <1>3

-----------------------------------------------------------------------------
(* How they are laid out: what precedes the name, the name, what follows.  *)

LEMMA InQuotes ==
  ASSUME NEW W, NEW d \in Seq(W), NEW a \in W, NEW b \in W
  PROVE  LET x == <<a>> \o d \o <<b>>
         IN  /\ x \in Seq(W) /\ Len(x) = Len(d) + 2
             /\ x[1] = a /\ x[Len(d) + 2] = b
             /\ \A m \in 1..Len(d) : x[m + 1] = d[m]
<1> DEFINE y == <<a>> \o d
           x == y \o <<b>>
<1>1. <<a>> \in Seq(W) /\ <<b>> \in Seq(W) /\ Len(<<a>>) = 1 /\ Len(<<b>>) = 1 /\ Len(d) \in Nat
      /\ <<a>>[1] = a /\ <<b>>[1] = b
  OBVIOUS
<1>2. /\ y \in Seq(W) /\ Len(y) = 1 + Len(d) /\ y[1] = a
      /\ \A m \in 1..Len(d) : y[1 + m] = d[m]
  <2>1. /\ y \in Seq(W) /\ Len(y) = Len(<<a>>) + Len(d)
        /\ \A m \in 1..Len(<<a>>) : y[m] = <<a>>[m]
        /\ \A m \in 1..Len(d) : y[Len(<<a>>) + m] = d[m]
    BY <1>1, Glue
  <2> HIDE DEF y
  <2> QED BY <1>1, <2>1
<1> HIDE DEF y
<1>3. /\ x \in Seq(W) /\ Len(x) = Len(y) + 1 /\ x[Len(y) + 1] = b
      /\ \A m \in 1..Len(y) : x[m] = y[m]
  <2>1. /\ x \in Seq(W) /\ Len(x) = Len(y) + Len(<<b>>)
        /\ \A m \in 1..Len(y) : x[m] = y[m]
        /\ \A m \in 1..Len(<<b>>) : x[Len(y) + m] = <<b>>[m]
    BY <1>1, <1>2, Glue
  <2> HIDE DEF x
  <2> QED BY <1>1, <1>2, <2>1
<1> HIDE DEF x
<1>4. \A m \in 1..Len(d) : m + 1 = 1 + m /\ m + 1 \in 1..Len(y)
  BY <1>1, <1>2
<1>5. 1 \in 1..Len(y) /\ Len(y) + 1 = Len(d) + 2
  BY <1>1, <1>2
<1> QED BY <1>2, <1>3, <1>4, <1>5 DEF x, y

\* A dotted name behind a head and before a tail.
Written(t, head, x, dot, y, tail) == t = head \o (x \o <<dot>> \o y) \o tail

LEMMA Laid ==
  ASSUME NEW W, NEW head \in Seq(W), NEW x \in Seq(W), NEW y \in Seq(W), NEW tail \in Seq(W),
         NEW c \in W, NEW t, Written(t, head, x, c, y, tail)
  PROVE  LET h == Len(head)
             k == h + Len(x) + 1
             e == k + Len(y)
         IN  /\ t \in Seq(W) /\ Len(t) = e + Len(tail)
             /\ \A m \in 1..h : t[m] = head[m]
             /\ \A m \in 1..Len(x) : t[h + m] = x[m]
             /\ t[k] = c
             /\ \A m \in 1..Len(y) : t[k + m] = y[m]
             /\ \A m \in 1..Len(tail) : t[e + m] = tail[m]
<1> DEFINE z == x \o <<c>>
           w == z \o y
           u == head \o w
           v == u \o tail
           h == Len(head)
           k == h + Len(x) + 1
           e == k + Len(y)
<1>0. <<c>> \in Seq(W) /\ Len(<<c>>) = 1 /\ <<c>>[1] = c
  OBVIOUS
<1>1. /\ z \in Seq(W) /\ Len(z) = Len(x) + 1 /\ z[Len(x) + 1] = c
      /\ \A m \in 1..Len(x) : z[m] = x[m]
  <2>1. /\ z \in Seq(W) /\ Len(z) = Len(x) + Len(<<c>>)
        /\ \A m \in 1..Len(x) : z[m] = x[m]
        /\ \A m \in 1..Len(<<c>>) : z[Len(x) + m] = <<c>>[m]
    BY <1>0, Glue
  <2> HIDE DEF z
  <2> QED BY <1>0, <2>1
<1> HIDE DEF z
<1>2. /\ w \in Seq(W) /\ Len(w) = Len(z) + Len(y)
      /\ \A m \in 1..Len(z) : w[m] = z[m]
      /\ \A m \in 1..Len(y) : w[Len(z) + m] = y[m]
  <2>1. z \in Seq(W) /\ y \in Seq(W)
    BY <1>1
  <2> QED BY <2>1, Glue
<1> HIDE DEF w
<1>3. /\ u \in Seq(W) /\ Len(u) = h + Len(w)
      /\ \A m \in 1..h : u[m] = head[m]
      /\ \A m \in 1..Len(w) : u[h + m] = w[m]
  <2>1. head \in Seq(W) /\ w \in Seq(W)
    BY <1>2
  <2> QED BY <2>1, Glue
<1> HIDE DEF u
<1>4. /\ v \in Seq(W) /\ Len(v) = Len(u) + Len(tail)
      /\ \A m \in 1..Len(u) : v[m] = u[m]
      /\ \A m \in 1..Len(tail) : v[Len(u) + m] = tail[m]
  <2>1. u \in Seq(W) /\ tail \in Seq(W)
    BY <1>3
  <2> QED BY <2>1, Glue
<1>5. t = v
  BY DEF Written, v, u, w, z
<1> HIDE DEF v
<1>6. h \in Nat /\ Len(x) \in Nat /\ Len(y) \in Nat /\ Len(tail) \in Nat
  OBVIOUS
<1>7. Len(z) = Len(x) + 1 /\ Len(w) = Len(x) + 1 + Len(y) /\ Len(u) = e /\ k \in Nat /\ e \in Nat
  BY <1>1, <1>2, <1>3, <1>6
<1>8. \A m \in 1..h : t[m] = head[m]
  <2>1. \A m \in 1..h : m \in 1..Len(u)
    BY <1>3, <1>6, <1>7
  <2> QED BY <1>3, <1>4, <1>5, <2>1
<1>9. \A m \in 1..Len(w) : t[h + m] = w[m]
  <2>1. \A m \in 1..Len(w) : h + m \in 1..Len(u)
    BY <1>3, <1>6, <1>7
  <2> QED BY <1>3, <1>4, <1>5, <2>1
<1>10. \A m \in 1..Len(z) : t[h + m] = z[m]
  <2>1. \A m \in 1..Len(z) : m \in 1..Len(w)
    BY <1>6, <1>7
  <2> QED BY <1>2, <1>9, <2>1
<1>11. \A m \in 1..Len(x) : t[h + m] = x[m]
  <2>1. \A m \in 1..Len(x) : m \in 1..Len(z)
    BY <1>6, <1>7
  <2> QED BY <1>1, <1>10, <2>1
<1>12. t[k] = c
  <2>1. Len(x) + 1 \in 1..Len(z) /\ h + (Len(x) + 1) = k
    BY <1>6, <1>7
  <2> HIDE DEF k
  <2> QED BY <1>1, <1>10, <2>1
<1>13. \A m \in 1..Len(y) : t[k + m] = y[m]
  <2>1. \A m \in 1..Len(y) : Len(z) + m \in 1..Len(w) /\ h + (Len(z) + m) = k + m
    BY <1>6, <1>7
  <2> HIDE DEF k
  <2> QED BY <1>2, <1>9, <2>1
<1> HIDE DEF h, k, e
<1> QED BY <1>4, <1>7, <1>8, <1>11, <1>12, <1>13, <1>5 DEF h, k, e

-----------------------------------------------------------------------------
(* A statement that begins with SELECT is a read.                          *)

StartAt(t, f, i) ==
  IF i > Len(t) THEN i
  ELSE IF t[i] \in Space \cup {"("} THEN f[i + 1]
  ELSE IF At(t, i, <<"-", "-">>) THEN f[SkipLineComment(t, i)]
  ELSE IF At(t, i, <<"/", "*">>) THEN f[SkipBlockComment(t, i)]
  ELSE i

LEMMA StartExists ==
  ASSUME NEW U, NEW t \in Seq(U)
  PROVE  \E f : f = [i \in Position |-> StartAt(t, f, i)]
<1> DEFINE n == Len(t)
           blank(i)   == t[i] \in Space \cup {"("}
           line(i)    == At(t, i, <<"-", "-">>)
           block(i)   == At(t, i, <<"/", "*">>)
           behind(i)  == IF blank(i) THEN i + 1
                         ELSE IF line(i) THEN SkipLineComment(t, i)
                         ELSE IF block(i) THEN SkipBlockComment(t, i)
                         ELSE i + 1
           next == [i \in 1..n |-> behind(i)]
           base == [i \in Position |-> i]
           use  == [i \in 1..n |-> [y \in Position |->
                      IF blank(i) \/ line(i) \/ block(i) THEN y ELSE i]]
<1>0. n \in Nat
  OBVIOUS
<1>1. ASSUME NEW i \in 1..n PROVE i \in Position /\ behind(i) \in Position /\ behind(i) > i
  <2>1. i \in Nat /\ i >= 1 /\ i <= n /\ i \in Position /\ i + 1 \in Position /\ i + 1 > i
    BY <1>0 DEF Position
  <2>2. ASSUME line(i) PROVE SkipLineComment(t, i) \in Position /\ SkipLineComment(t, i) > i
    <3>1. t[i] = "-"
      BY <2>1, <2>2, AtPair
    <3> DEFINE j == From(t, i, {"\n"})
    <3>2. j \in i..(n + 1) /\ (j <= n => t[j] \in {"\n"})
      BY <1>0, <2>1, FromBehind
    <3> HIDE DEF j
    <3>3. j # i
      BY <2>1, <3>1, <3>2
    <3>4. j \in Position /\ j > i
      BY <1>0, <2>1, <3>2, <3>3 DEF Position
    <3> QED BY <3>4 DEF SkipLineComment, j
  <2>3. SkipBlockComment(t, i) \in Position /\ SkipBlockComment(t, i) > i
    BY <1>0, <2>1, Commented
  <2> HIDE DEF blank, line, block
  <2> QED BY <2>1, <2>2, <2>3
<1> HIDE DEF behind
<1>2. Scanning(n, Position, base, next, use)
  <2>1. next \in [1..n -> Position] /\ \A i \in 1..n : next[i] > i
    <3> HIDE DEF n
    <3> QED BY <1>1
  <2>2. base \in [Position -> Position]
    OBVIOUS
  <2>3. use \in [1..n -> [Position -> Position]]
    <3> HIDE DEF n, blank, line, block
    <3> QED BY <1>1
  <2> HIDE DEF n, base, next, use
  <2> QED BY <1>0, <2>1, <2>2, <2>3 DEF Scanning
<1> HIDE DEF n
<1>3. PICK f \in [Position -> Position] :
        \A i \in Position : f[i] = IF i > n THEN base[i] ELSE use[i][f[next[i]]]
  <2> HIDE DEF base, next, use
  <2> QED BY <1>2, Scan
<1>4. ASSUME NEW i \in Position PROVE f[i] = StartAt(t, f, i)
  <2>1. CASE i > n
    BY <1>3, <2>1 DEF StartAt, n
  <2>2. CASE ~(i > n)
    <3>1. i \in 1..n
      BY <1>0, <2>2 DEF Position
    <3>2. next[i] = behind(i) /\ behind(i) \in Position /\ f[behind(i)] \in Position
      BY <1>1, <3>1
    <3> DEFINE y == f[behind(i)]
    <3>3. f[i] = use[i][y] /\ y \in Position
      BY <1>3, <2>2, <3>2
    <3>4. use[i][y] = IF blank(i) \/ line(i) \/ block(i) THEN y ELSE i
      <4> HIDE DEF y, blank, line, block
      <4> QED BY <3>1, <3>3
    <3>5. f[i] = IF blank(i) \/ line(i) \/ block(i) THEN f[behind(i)] ELSE i
      BY <3>3, <3>4
    <3> HIDE DEF y, next, use
    <3>6. f[i] = IF blank(i) THEN f[i + 1]
                 ELSE IF line(i) THEN f[SkipLineComment(t, i)]
                 ELSE IF block(i) THEN f[SkipBlockComment(t, i)]
                 ELSE i
      <4> HIDE DEF blank, line, block
      <4> QED BY <3>5 DEF behind
    <3> QED BY <2>2, <3>6 DEF StartAt, n
  <2> QED BY <2>1, <2>2
<1> HIDE DEF StartAt
<1>5. f = [i \in Position |-> StartAt(t, f, i)]
  BY <1>4
<1> QED BY <1>5

LEMMA IsARead ==
  ASSUME NEW U, NEW t \in Seq(U), 2 <= Len(t), t[1] = "SELECT", t[2] \in Space
  PROVE  ~IsOnlyComments(t) /\ IsReadOnly(t) /\ RunsAsQuery(t)
<1> DEFINE f == CHOOSE g : g = [i \in Position |-> StartAt(t, g, i)]
<1>1. f = [i \in Position |-> StartAt(t, f, i)]
  BY StartExists
<1>2. StripLeading(t) = SubSeq(t, f[1], Len(t))
  BY DEF StripLeading, StartAt
<1> HIDE DEF f
<1>3. f[1] = 1
  <2>1. 1 \in Position /\ ~(1 > Len(t))
    BY DEF Position
  <2>2. f[1] = StartAt(t, f, 1)
    <3> HIDE DEF StartAt
    <3> QED BY <1>1, <2>1
  <2>3. ~At(t, 1, <<"-", "-">>) /\ ~At(t, 1, <<"/", "*">>)
    BY <2>1, AtPair
  <2>4. t[1] \notin Space \cup {"("}
    BY DEF Space
  <2> QED BY <2>1, <2>2, <2>3, <2>4 DEF StartAt
<1>4. StripLeading(t) = t
  BY <1>2, <1>3
<1>5. t # <<>>
  OBVIOUS
<1>6. FirstKeyword(t) = "SELECT"
  <2> DEFINE rest == {j \in 1..Len(t) : ~IsLetter(t[j])} \cup {Len(t) + 1}
  <2>1. IsLetter(t[1]) /\ ~IsLetter(t[2])
    BY DEF IsLetter, IsIdent, Marks, Space, Digits
  <2>2. 2 \in rest /\ 1 \notin rest /\ rest \subseteq Nat /\ \A j \in rest : 2 <= j
    BY <2>1
  <2>3. Min(rest) = 2
    <3> HIDE DEF rest
    <3>1. Min(rest) \in rest /\ \A j \in rest : Min(rest) <= j
      BY <2>2 DEF Min
    <3>2. Min(rest) \in Nat /\ 2 <= Min(rest) /\ Min(rest) <= 2
      BY <2>2, <3>1
    <3> QED BY <3>2
  <2>4. FirstKeyword(t) = Word(SubSeq(t, 1, Min(rest) - 1))
    BY <1>4 DEF FirstKeyword
  <2> HIDE DEF rest
  <2>5. FirstKeyword(t) = Word(SubSeq(t, 1, 1))
    BY <2>3, <2>4
  <2>6. Len(SubSeq(t, 1, 1)) = 1 /\ SubSeq(t, 1, 1)[1] = t[1]
    OBVIOUS
  <2> QED BY <2>5, <2>6 DEF Word
<1>7. Classify(t) = "select"
  BY <1>6 DEF Classify
<1> QED BY <1>4, <1>5, <1>7 DEF IsOnlyComments, IsReadOnly, RunsAsQuery

-----------------------------------------------------------------------------
(* A text without a separator is one statement.                            *)

LEMMA TrimmedAlready ==
  ASSUME NEW U, NEW t \in Seq(U), t # <<>>, t[1] \notin Space, t[Len(t)] \notin Space
  PROVE  TrimSpace(t) = t
<1> DEFINE n == Len(t)
           ink == {i \in 1..n : t[i] \notin Space}
<1>1. n \in Nat /\ n >= 1
  OBVIOUS
<1>2. 1 \in ink /\ n \in ink /\ ink \subseteq 1..n
  BY <1>1
<1>3. TrimSpace(t) = IF ink = {} THEN <<>> ELSE SubSeq(t, Min(ink), Max(ink))
  BY DEF TrimSpace
<1> HIDE DEF n, ink
<1>4. Min(ink) = 1
  <2>1. \A i \in ink : i \in Nat /\ 1 <= i
    BY <1>1, <1>2
  <2>2. Min(ink) \in ink /\ \A i \in ink : Min(ink) <= i
    BY <1>2, <2>1 DEF Min
  <2>3. Min(ink) \in Nat /\ 1 <= Min(ink) /\ Min(ink) <= 1
    BY <1>2, <2>1, <2>2
  <2> QED BY <2>3
<1>5. Max(ink) = n
  <2>1. \A i \in ink : i \in Nat /\ i <= n
    BY <1>1, <1>2
  <2>2. Max(ink) \in ink /\ \A i \in ink : Max(ink) >= i
    BY <1>2, <2>1 DEF Max
  <2>3. Max(ink) \in Nat /\ Max(ink) <= n /\ Max(ink) >= n
    BY <1>2, <2>1, <2>2
  <2> QED BY <1>1, <2>3
<1>6. SubSeq(t, 1, n) = t
  BY DEF n
<1> QED BY <1>2, <1>3, <1>4, <1>5, <1>6

\* One cut is the piece from the first symbol on.
LEMMA OneCut ==
  ASSUME NEW t, NEW end, DOMAIN end = {1}
  PROVE  Cut(t, end) = <<[text |-> Piece(t, 1, end[1]), start |-> 0, end |-> end[1]]>>
<1>1. Cardinality({1}) = 1
  BY FS_Singleton
<1>2. \A k \in 1..1 : (CHOOSE i \in {1} : Cardinality({j \in {1} : j <= i}) = k) = 1
  <2>1. {j \in {1} : j <= 1} = {1}
    OBVIOUS
  <2> QED BY <1>1, <2>1
<1> DEFINE piece(i) == [text |-> Piece(t, i, end[i]), start |-> i - 1, end |-> end[i]]
           from(k)  == CHOOSE i \in {1} : Cardinality({j \in {1} : j <= i}) = k
<1>3. Cut(t, end) = [k \in 1..1 |-> piece(from(k))]
  <2>1. Cut(t, end) = [k \in 1..Cardinality({1}) |-> piece(from(k))]
    BY DEF Cut
  <2> HIDE DEF piece, from
  <2> QED BY <1>1, <2>1
<1>4. \A k \in 1..1 : from(k) = 1
  BY <1>2
<1>5. [k \in 1..1 |-> piece(from(k))] = <<piece(1)>>
  <2> HIDE DEF piece, from
  <2>1. [k \in 1..1 |-> piece(from(k))] = [k \in 1..1 |-> piece(1)]
    BY <1>4
  <2> QED BY <2>1
<1> QED BY <1>3, <1>5

LEMMA FlattenOne == ASSUME NEW x PROVE FlattenSeq(<< <<x>> >>) = <<x>>
<1> DEFINE seqs == << <<x>> >>
           U == {x}
<1>1. <<x>> \in Seq(U)
  OBVIOUS
<1> HIDE DEF U
<1>2. seqs \in Seq(Seq(U)) /\ Len(seqs) = 1 /\ seqs[1] = <<x>>
  BY <1>1
<1> HIDE DEF seqs
<1>3. PICK g : Parts(seqs, g) /\ \A k \in 0..Len(seqs) : g[k] \in Seq(U)
  BY <1>2, Flattened
<1>4. FlattenSeq(seqs) = g[1] /\ g[1] = g[0] \o <<x>> /\ g[0] = <<>>
  BY <1>2, <1>3 DEF Parts
<1>5. <<>> \o <<x>> = <<x>>
  BY <1>1
<1> QED BY <1>4, <1>5 DEF seqs

Separates(c) == c = ";"

LEMMA OneStatement ==
  ASSUME NEW U, NEW t \in Seq(U), NEW dialect, t # <<>>,
         t[1] \notin Space, t[Len(t)] \notin Space, ~IsOnlyComments(t),
         \A i \in Stops(t, Splitting(dialect)) : ~Separates(t[i]),
         dialect = "sqlserver" => GoLines(t) = {}
  PROVE  Len(SplitStatements(dialect, t)) = 1 /\ SplitStatements(dialect, t)[1].text = t
<1> DEFINE n == Len(t)
           st == [text |-> t, start |-> 0, end |-> n]
           ends   == {i \in Stops(t, Splitting(dialect)) : Separates(t[i])} \cup {n}
           End(i) == Min({e \in ends : e >= i})
           starts == {1} \cup {i + 1 : i \in ends \ {n}}
           kept   == {i \in starts : ~IsOnlyComments(Piece(t, i, End(i)))}
           cut    == Cut(t, [i \in kept |-> End(i)])
<1>1. n \in Nat /\ n >= 1 /\ {n} # {}
  OBVIOUS
<1>2. Piece(t, 1, n) = t
  <2>1. SubSeq(t, 1, n) = t
    OBVIOUS
  <2> QED BY <2>1, TrimmedAlready DEF Piece
<1>3. SplitStatements(dialect, t) = IF dialect = "sqlserver" THEN SplitOnGoBatches(cut) ELSE cut
  BY Zenon DEF SplitStatements, Separates
<1>4. ends = {n}
  OBVIOUS
<1> HIDE DEF n, ends
<1>5. starts = {1}
  BY <1>4
<1>6. End(1) = n
  <2>1. {e \in ends : e >= 1} = {n}
    BY <1>1, <1>4
  <2>2. Min({n}) = n
    <3>1. n <= n
      BY <1>1
    <3> QED BY <3>1 DEF Min
  <2> QED BY <2>1, <2>2
<1> HIDE DEF End, starts
<1>7. kept = {1}
  BY <1>2, <1>5, <1>6
<1> HIDE DEF kept
<1>8. cut = <<st>>
  <2> DEFINE end == [i \in kept |-> End(i)]
  <2>1. DOMAIN end = {1} /\ end[1] = n
    BY <1>6, <1>7
  <2> HIDE DEF end
  <2>2. Cut(t, end) = <<[text |-> Piece(t, 1, end[1]), start |-> 0, end |-> end[1]]>>
    BY <2>1, OneCut
  <2> QED BY <1>2, <2>1, <2>2 DEF end
<1> HIDE DEF cut
<1>9. CASE dialect # "sqlserver"
  <2>1. SplitStatements(dialect, t) = <<st>>
    BY <1>3, <1>8, <1>9
  <2> QED BY <2>1
<1>10. CASE dialect = "sqlserver"
  <2> DEFINE Ending(i) == Min({g \in GoLines(t) : g >= i} \cup {Len(t) + 1}) - 1
             firsts  == {1} \cup {SkipLineComment(t, i) + 1 : i \in GoLines(t)}
             whole   == {i \in firsts : Piece(t, i, Ending(i)) # <<>>}
             parts   == Cut(t, [i \in whole |-> Ending(i)])
             batch   == [k \in DOMAIN parts |-> [st EXCEPT !.text = parts[k].text]]
  <2>1. GoLines(t) = {}
    BY <1>10
  <2>2. firsts = {1}
    BY <2>1
  <2>3. Ending(1) = n
    <3>1. {g \in GoLines(t) : g >= 1} \cup {n + 1} = {n + 1}
      BY <2>1
    <3>2. Min({n + 1}) = n + 1
      <4>1. n + 1 <= n + 1
        BY <1>1
      <4> QED BY <4>1 DEF Min
    <3>3. (n + 1) - 1 = n
      BY <1>1
    <3> QED BY <3>1, <3>2, <3>3 DEF n
  <2> HIDE DEF Ending, firsts
  <2>4. whole = {1}
    BY <1>2, <2>2, <2>3
  <2> HIDE DEF whole
  <2>5. parts = <<st>>
    <3> DEFINE end == [i \in whole |-> Ending(i)]
    <3>1. DOMAIN end = {1} /\ end[1] = n
      BY <2>3, <2>4
    <3> HIDE DEF end
    <3>2. Cut(t, end) = <<[text |-> Piece(t, 1, end[1]), start |-> 0, end |-> end[1]]>>
      BY <3>1, OneCut
    <3> QED BY <1>2, <3>1, <3>2 DEF end
  <2> HIDE DEF parts
  <2>6. batch = <<st>>
    <3>1. DOMAIN parts = 1..1 /\ parts[1].text = t
      BY <2>5
    <3>2. [st EXCEPT !.text = t] = st
      OBVIOUS
    <3> HIDE DEF st
    <3>3. batch = [k \in 1..1 |-> st]
      BY <3>1, <3>2
    <3> QED BY <3>3
  <2>7. SplitOnGoBatches(<<st>>) = FlattenSeq(<<batch>>)
    <3> DEFINE B(r) ==
                 LET u       == r.text
                     Stop(i) == Min({g \in GoLines(u) : g >= i} \cup {Len(u) + 1}) - 1
                     begins  == {1} \cup {SkipLineComment(u, i) + 1 : i \in GoLines(u)}
                     stay    == {i \in begins : Piece(u, i, Stop(i)) # <<>>}
                     cuts    == Cut(u, [i \in stay |-> Stop(i)])
                 IN  [m \in DOMAIN cuts |-> [r EXCEPT !.text = cuts[m].text]]
    <3>1. SplitOnGoBatches(<<st>>) = FlattenSeq([k \in DOMAIN <<st>> |-> B(<<st>>[k])])
      BY Zenon DEF SplitOnGoBatches
    <3>2. B(st) = batch
      <4>1. st.text = t
        OBVIOUS
      <4> HIDE DEF st
      <4> QED BY <4>1 DEF parts, whole, firsts, Ending
    <3> HIDE DEF B, st, batch
    <3>3. [k \in DOMAIN <<st>> |-> B(<<st>>[k])] = <<B(st)>>
      OBVIOUS
    <3> QED BY <3>1, <3>2, <3>3
  <2>8. SplitOnGoBatches(<<st>>) = <<st>>
    <3> HIDE DEF batch, st
    <3> QED BY <2>6, <2>7, FlattenOne
  <2>9. SplitStatements(dialect, t) = <<st>>
    BY <1>3, <1>8, <1>10, <2>8
  <2> QED BY <2>9
<1> QED BY <1>9, <1>10

-----------------------------------------------------------------------------
(* What is written around names without separators is one read.            *)

LEMMA QuotedForm ==
  ASSUME NEW dialect, NEW name
  PROVE  QuoteIdentifier(dialect, name)
           = <<OpenQuote(dialect)>> \o Doubling(name, CloseQuote(dialect)) \o <<CloseQuote(dialect)>>
<1>1. CASE dialect = "sqlserver"
  BY <1>1 DEF QuoteIdentifier, OpenQuote, CloseQuote
<1>2. CASE dialect = "mysql"
  BY <1>2 DEF QuoteIdentifier, OpenQuote, CloseQuote
<1>3. CASE dialect # "sqlserver" /\ dialect # "mysql"
  BY <1>3 DEF QuoteIdentifier, OpenQuote, CloseQuote
<1> QED BY <1>1, <1>2, <1>3

\* A symbol that neither opens nor separates anything, nor is a quote.
Idle(c) == Plain(c) /\ ~Separates(c)

LEMMA QuotesAreNotIdle ==
  ASSUME NEW dialect
  PROVE  /\ ~Plain(CloseQuote(dialect)) /\ CloseQuote(dialect) \notin Space
         /\ ~Separates(OpenQuote(dialect)) /\ Idle(".")
  BY Zenon DEF Idle, Plain, Separates, OpenQuote, CloseQuote, Space

\* The places of a statement: idle up to h, a name, an idle symbol at k, a
\* name, and idle from e on.
Around(t, h, k, e, schema, name, dialect) ==
  /\ h \in Nat
  /\ k = h + Len(Doubling(schema, CloseQuote(dialect))) + 3
  /\ e = k + Len(Doubling(name, CloseQuote(dialect))) + 3
  /\ \A i \in 1..h : Idle(t[i])
  /\ Stands(t, h + 1, schema, OpenQuote(dialect), CloseQuote(dialect))
  /\ Idle(t[k])
  /\ Stands(t, k + 1, name, OpenQuote(dialect), CloseQuote(dialect))
  /\ \A i \in e..Len(t) : Idle(t[i])

LEMMA NothingSeparates ==
  ASSUME NEW W, NEW t \in Seq(W), NEW dialect, NEW U, NEW schema \in Seq(U), NEW name \in Seq(U),
         IF dialect = "sqlserver" THEN "]" \notin U ELSE "\\" \notin U,
         NEW h, NEW k, NEW e, Around(t, h, k, e, schema, name, dialect)
  PROVE  \A i \in Stops(t, Splitting(dialect)) : ~Separates(t[i])
<1> DEFINE rules == Splitting(dialect)
           c  == CloseQuote(dialect)
           l1 == Len(Doubling(schema, c))
           l2 == Len(Doubling(name, c))
           n  == Len(t)
           G  == {i \in Position : i <= h + 1 \/ i = k \/ i = k + 1 \/ i >= e}
<1>1. l1 \in Nat /\ l2 \in Nat /\ n \in Nat
  <2>1. Doubling(schema, c) \in Seq(U \cup {c}) /\ Doubling(name, c) \in Seq(U \cup {c})
    BY DoubledParts
  <2>2. \A s \in Seq(U \cup {c}) : Len(s) \in Nat
    OBVIOUS
  <2> QED BY <2>1, <2>2
<1>2. /\ h \in Nat /\ k = h + l1 + 3 /\ e = k + l2 + 3 /\ k <= n
      /\ \A i \in 1..h : Idle(t[i])
      /\ Stands(t, h + 1, schema, OpenQuote(dialect), c)
      /\ Idle(t[k])
      /\ Stands(t, k + 1, name, OpenQuote(dialect), c)
      /\ \A i \in e..n : Idle(t[i])
      /\ t[h + 1] = OpenQuote(dialect) /\ t[k + 1] = OpenQuote(dialect)
  <2>1. k + 1 + l2 + 1 <= n /\ t[h + 1] = OpenQuote(dialect) /\ t[k + 1] = OpenQuote(dialect)
    BY DEF Around, Stands
  <2>2. k \in Nat /\ h \in Nat /\ k = h + l1 + 3
    BY <1>1 DEF Around
  <2> HIDE DEF l1, l2, n
  <2>3. k <= n
    BY <1>1, <2>1, <2>2
  <2> QED BY <2>1, <2>3 DEF Around, l1, l2, n
<1>3. h + 1 \in Position /\ k + 1 \in Position /\ k \in 1..n /\ e \in Nat
  <2> HIDE DEF l1, l2, n
  <2> QED BY <1>1, <1>2 DEF Position
<1>4. Jump(t, h + 1, rules) = k
  <2>1. /\ h + 1 \in Position
        /\ Stands(t, h + 1, schema, OpenQuote(dialect), CloseQuote(dialect))
    BY <1>2, <1>3
  <2>2. Jump(t, h + 1, rules) = h + 1 + l1 + 2
    BY <2>1, NameIsSteppedOver
  <2> HIDE DEF l1
  <2> QED BY <1>1, <1>2, <2>2
<1>5. Jump(t, k + 1, rules) = e
  <2>1. /\ k + 1 \in Position
        /\ Stands(t, k + 1, name, OpenQuote(dialect), CloseQuote(dialect))
    BY <1>2, <1>3
  <2>2. Jump(t, k + 1, rules) = k + 1 + l2 + 2
    BY <2>1, NameIsSteppedOver
  <2> HIDE DEF l2
  <2> QED BY <1>1, <1>2, <1>3, <2>2
<1>6. \A i \in 1..n : Idle(t[i]) => Jump(t, i, rules) = i + 1
  BY PlainIsSteppedOver DEF Idle
<1> HIDE DEF rules, l1, l2, n
<1>7. ASSUME NEW i \in G, i <= n PROVE Jump(t, i, rules) \in G /\ ~Separates(t[i])
  <2>1. i \in 1..n /\ i \in Nat /\ i + 1 \in Position
    BY <1>1, <1>7 DEF Position
  <2>2. CASE i \in 1..h \/ i \in e..n
    <3>1. Idle(t[i])
      BY <1>2, <2>2
    <3>2. Jump(t, i, rules) = i + 1 /\ ~Separates(t[i])
      BY <1>6, <2>1, <3>1 DEF Idle
    <3>3. i + 1 \in G
      BY <1>2, <1>3, <2>1, <2>2
    <3> QED BY <3>2, <3>3
  <2>3. CASE i = h + 1
    BY <1>2, <1>3, <1>4, <2>3, QuotesAreNotIdle DEF Position
  <2>4. CASE i = k
    <3>1. Jump(t, i, rules) = k + 1 /\ ~Separates(t[i])
      BY <1>2, <1>3, <1>6, <2>4 DEF Idle
    <3> QED BY <1>3, <3>1
  <2>5. CASE i = k + 1
    <3>1. e \in Position
      BY <1>1, <1>2, <1>3 DEF Position
    <3>2. e \in G
      BY <1>3, <3>1
    <3> QED BY <1>2, <1>5, <2>5, <3>2, QuotesAreNotIdle
  <2> QED BY <1>2, <1>3, <1>7, <2>1, <2>2, <2>3, <2>4, <2>5
<1>8. 1 \in G
  BY <1>2 DEF Position
<1>9. Stops(t, rules) \subseteq {i \in G : i <= Len(t)}
  <2> HIDE DEF G
  <2>1. G \in SUBSET Position
    BY DEF G
  <2>2. \A i \in G : i <= Len(t) => Jump(t, i, rules) \in G
    BY <1>7 DEF n
  <2> QED BY <1>8, <2>1, <2>2, StopsAmong
<1> QED BY <1>7, <1>9 DEF n, rules

\* A text holds x behind p, and nothing or a plain symbol behind x.
Holds(t, p, x) ==
  /\ \A m \in 1..Len(x) : t[p + m] = x[m]
  /\ p + Len(x) <= Len(t)
  /\ p + Len(x) + 1 <= Len(t) => Plain(t[p + Len(x) + 1])

\* The name in quotes that a text holds stands there.
LEMMA NameStands ==
  ASSUME NEW U, NEW name \in Seq(U), NEW dialect, NEW t, Len(t) \in Nat, NEW p \in Nat,
         NEW x, x = QuoteIdentifier(dialect, name), Holds(t, p, x)
  PROVE  /\ Stands(t, p + 1, name, OpenQuote(dialect), CloseQuote(dialect))
         /\ Len(x) = Len(Doubling(name, CloseQuote(dialect))) + 2
<1> DEFINE o == OpenQuote(dialect)
           c == CloseQuote(dialect)
           d == Doubling(name, c)
           W == U \cup {o, c}
<1>1. d \in Seq(W) /\ o \in W /\ c \in W /\ ~Plain(c)
  <2>1. d \in Seq(U \cup {c})
    BY DoubledParts
  <2>2. ~Plain(c)
    BY QuotesAreNotIdle
  <2> HIDE DEF d, c, o
  <2> QED BY <2>1, <2>2
<1>2. x = <<o>> \o d \o <<c>>
  BY QuotedForm
<1> HIDE DEF W, o, c, d
<1>3. /\ Len(x) = Len(d) + 2 /\ x[1] = o /\ x[Len(d) + 2] = c
      /\ \A m \in 1..Len(d) : x[m + 1] = d[m]
  BY <1>1, <1>2, InQuotes
<1>4. Len(d) \in Nat /\ Len(t) \in Nat
  BY <1>1
<1>5. /\ \A m \in 1..(Len(d) + 2) : t[p + m] = x[m]
      /\ p + (Len(d) + 2) <= Len(t)
      /\ p + (Len(d) + 2) + 1 <= Len(t) => Plain(t[p + (Len(d) + 2) + 1])
  BY <1>3 DEF Holds
<1>6. /\ p + 1 + Len(d) + 1 = p + (Len(d) + 2)
      /\ p + 1 + Len(d) + 2 = p + (Len(d) + 2) + 1
      /\ 1 \in 1..(Len(d) + 2) /\ Len(d) + 2 \in 1..(Len(d) + 2)
  BY <1>4
<1>7. \A m \in 1..Len(d) : p + 1 + m = p + (m + 1) /\ m + 1 \in 1..(Len(d) + 2)
  BY <1>4
<1>8. t[p + 1] = o /\ \A m \in 1..Len(d) : t[p + 1 + m] = d[m]
  BY <1>3, <1>5, <1>6, <1>7
<1>9. t[p + (Len(d) + 2)] = c
  BY <1>3, <1>5, <1>6
<1>10. p + (Len(d) + 2) + 1 <= Len(t) => t[p + (Len(d) + 2) + 1] # c
  BY <1>1, <1>5
<1> HIDE DEF Plain
<1>11. /\ p + 1 + Len(d) + 1 <= Len(t) /\ t[p + 1 + Len(d) + 1] = c
       /\ p + 1 + Len(d) + 2 <= Len(t) => t[p + 1 + Len(d) + 2] # c
  BY <1>5, <1>6, <1>9, <1>10
<1>12. Stands(t, p + 1, name, o, c)
  BY <1>8, <1>11 DEF Stands, d
<1> QED BY <1>3, <1>12 DEF o, c, d

Reads(head) ==
  /\ 2 <= Len(head) /\ head[1] = "SELECT" /\ head[2] \in Space
  /\ \A i \in 1..Len(head) : Idle(head[i])
Follows(tail) ==
  /\ \A i \in 1..Len(tail) : Idle(tail[i])
  /\ tail # <<>> => tail[Len(tail)] \notin Space

LEMMA LastOfName ==
  ASSUME NEW U, NEW name \in Seq(U), NEW dialect
  PROVE  LET y == QuoteIdentifier(dialect, name)
         IN  Len(y) \in 1..Len(y) /\ y[Len(y)] = CloseQuote(dialect)
<1> DEFINE o == OpenQuote(dialect)
           c == CloseQuote(dialect)
           d == Doubling(name, c)
           W == U \cup {o, c}
           y == <<o>> \o d \o <<c>>
<1>1. d \in Seq(U \cup {c})
  BY DoubledParts
<1> HIDE DEF o, c, d
<1>2. d \in Seq(W) /\ o \in W /\ c \in W
  BY <1>1
<1> HIDE DEF W
<1>3. Len(y) = Len(d) + 2 /\ y[Len(d) + 2] = c
  BY <1>2, InQuotes
<1>4. Len(d) \in Nat
  BY <1>2
<1> HIDE DEF y
<1>5. Len(y) \in 1..Len(y) /\ y[Len(y)] = c
  BY <1>3, <1>4
<1> QED BY <1>5, QuotedForm DEF y, o, c, d

\* The symbols that are typed, known by nothing but where they stand.
LEMMA QuotedTyped ==
  ASSUME NEW U, NEW name \in Seq(U), NEW dialect
  PROVE  QuoteIdentifier(dialect, name) \in Seq(U \cup {OpenQuote(dialect), CloseQuote(dialect)})
<1> DEFINE o == OpenQuote(dialect)
           c == CloseQuote(dialect)
           d == Doubling(name, c)
           W == U \cup {o, c}
<1>1. d \in Seq(U \cup {c})
  BY DoubledParts
<1> HIDE DEF o, c, d
<1>2. d \in Seq(W) /\ o \in W /\ c \in W
  BY <1>1
<1> HIDE DEF W
<1>3. <<o>> \o d \o <<c>> \in Seq(W)
  BY <1>2, InQuotes
<1> QED BY <1>3, QuotedForm DEF o, c, d, W

LEMMA WrittenIsOneRead ==
  ASSUME NEW dialect, NEW U, NEW schema \in Seq(U), NEW name \in Seq(U),
         IF dialect = "sqlserver" THEN "]" \notin U ELSE "\\" \notin U,
         NEW X, NEW head \in Seq(X), NEW tail \in Seq(X), Reads(head), Follows(tail), NEW t,
         NEW dot, Idle(dot),
         Written(t, head, QuoteIdentifier(dialect, schema), dot, QuoteIdentifier(dialect, name), tail),
         dialect = "sqlserver" => GoLines(t) = {}
  PROVE  /\ Len(SplitStatements(dialect, t)) = 1 /\ SplitStatements(dialect, t)[1].text = t
         /\ IsReadOnly(t) /\ RunsAsQuery(t)
<1> DEFINE o == OpenQuote(dialect)
           c == CloseQuote(dialect)
           x == QuoteIdentifier(dialect, schema)
           y == QuoteIdentifier(dialect, name)
           W == X \cup U \cup {o, c, dot}
           h == Len(head)
           k == h + Len(x) + 1
           e == k + Len(y)
           n == Len(t)
<1>1. Idle(dot) /\ ~Plain(c) /\ c \notin Space
  BY QuotesAreNotIdle
<1>2. x \in Seq(W) /\ y \in Seq(W) /\ head \in Seq(W) /\ tail \in Seq(W) /\ dot \in W
  <2>1. x \in Seq(U \cup {o, c}) /\ y \in Seq(U \cup {o, c})
    BY QuotedTyped
  <2> HIDE DEF x, y, o, c
  <2> QED BY <2>1
<1>3. Written(t, head, x, dot, y, tail)
  OBVIOUS
<1> HIDE DEF x, y, W
<1>4. /\ t \in Seq(W) /\ n = e + Len(tail)
      /\ \A m \in 1..h : t[m] = head[m]
      /\ \A m \in 1..Len(x) : t[h + m] = x[m]
      /\ t[k] = dot
      /\ \A m \in 1..Len(y) : t[k + m] = y[m]
      /\ \A m \in 1..Len(tail) : t[e + m] = tail[m]
  BY <1>2, <1>3, Laid
<1>5. h \in Nat /\ Len(x) \in Nat /\ Len(y) \in Nat /\ Len(tail) \in Nat
  BY <1>2
<1> HIDE DEF n, h, k, e
<1>6. k = h + Len(x) + 1 /\ e = k + Len(y) /\ k \in Nat /\ e \in Nat /\ n \in Nat
  BY <1>4, <1>5 DEF k, e
<1>7. \A i \in (e + 1)..n : Idle(t[i])
  <2> TAKE i \in (e + 1)..n
  <2>1. i - e \in 1..Len(tail) /\ e + (i - e) = i
    BY <1>4, <1>5, <1>6
  <2>2. t[i] = tail[i - e]
    BY <1>4, <2>1
  <2> QED BY <2>1, <2>2 DEF Follows
<1>8. Stands(t, h + 1, schema, o, c) /\ Len(x) = Len(Doubling(schema, c)) + 2
  <2>1. h + Len(x) <= n /\ Plain(t[h + Len(x) + 1])
    BY <1>1, <1>4, <1>5, <1>6 DEF Idle
  <2>2. x = QuoteIdentifier(dialect, schema)
    BY DEF x
  <2>3. Len(t) \in Nat /\ h \in Nat /\ Holds(t, h, x)
    BY <1>4, <1>5, <2>1 DEF Holds, n
  <2> QED BY ONLY <2>2, <2>3, NameStands
<1>9. Stands(t, k + 1, name, o, c) /\ Len(y) = Len(Doubling(name, c)) + 2
  <2>1. k + Len(y) <= n /\ (k + Len(y) + 1 <= n => Plain(t[k + Len(y) + 1]))
    <3>1. e + 1 <= n => Idle(t[e + 1])
      <4>1. e + 1 <= n => e + 1 \in (e + 1)..n
        BY <1>6
      <4> QED BY <1>7, <4>1
    <3> QED BY <1>4, <1>5, <1>6, <3>1 DEF Idle
  <2>2. y = QuoteIdentifier(dialect, name)
    BY DEF y
  <2>3. Len(t) \in Nat /\ k \in Nat /\ Holds(t, k, y)
    BY <1>4, <1>6, <2>1 DEF Holds, n
  <2> QED BY ONLY <2>2, <2>3, NameStands
<1>10. Around(t, h, k, e + 1, schema, name, dialect)
  <2>1. \A i \in 1..h : Idle(t[i])
    BY <1>4 DEF Reads, h
  <2>2. Idle(t[k])
    BY <1>1, <1>4
  <2> DEFINE l1 == Len(Doubling(schema, c))
             l2 == Len(Doubling(name, c))
  <2>3. l1 \in Nat /\ l2 \in Nat
    <3>1. Doubling(schema, c) \in Seq(U \cup {c}) /\ Doubling(name, c) \in Seq(U \cup {c})
      BY DoubledParts
    <3>2. \A s \in Seq(U \cup {c}) : Len(s) \in Nat
      OBVIOUS
    <3> QED BY <3>1, <3>2
  <2>4. k = h + l1 + 3 /\ e + 1 = k + l2 + 3
    <3>1. Len(x) = l1 + 2 /\ Len(y) = l2 + 2
      BY <1>8, <1>9
    <3> HIDE DEF l1, l2
    <3> QED BY <1>5, <1>6, <2>3, <3>1
  <2> QED BY <1>5, <1>7, <1>8, <1>9, <2>1, <2>2, <2>4 DEF Around, n
<1>11. \A i \in Stops(t, Splitting(dialect)) : ~Separates(t[i])
  BY <1>4, <1>10, NothingSeparates
<1>12. 2 <= n /\ t[1] = "SELECT" /\ t[2] \in Space /\ t # <<>>
  <2>1. 2 <= h /\ head[1] = "SELECT" /\ head[2] \in Space
    BY DEF Reads, h
  <2>2. 2 <= n /\ 1 \in 1..h /\ 2 \in 1..h
    BY <1>4, <1>5, <1>6, <2>1
  <2>3. t # <<>>
    BY <2>2 DEF n
  <2> QED BY <1>4, <2>1, <2>2, <2>3
<1>13. t[1] \notin Space
  BY <1>12 DEF Space
<1>14. t[n] \notin Space
  <2>1. CASE tail = <<>>
    <3>1. Len(tail) = 0
      BY <2>1
    <3>2. n = k + Len(y) /\ Len(y) \in 1..Len(y)
      BY <1>4, <1>5, <1>6, <1>9, <3>1, LastOfName
    <3>3. t[n] = c
      <4>1. y[Len(y)] = c
        BY LastOfName DEF y, c
      <4> QED BY <1>4, <3>2, <4>1
    <3> QED BY <1>1, <3>3
  <2>2. CASE tail # <<>>
    <3>1. Len(tail) \in 1..Len(tail)
      BY <1>2, <2>2
    <3>2. t[n] = tail[Len(tail)]
      BY <1>4, <3>1
    <3> QED BY <2>2, <3>2 DEF Follows
  <2> QED BY <2>1, <2>2
<1>15. ~IsOnlyComments(t) /\ IsReadOnly(t) /\ RunsAsQuery(t)
  BY <1>4, <1>12, IsARead DEF n
<1> QED BY <1>4, <1>11, <1>12, <1>13, <1>14, <1>15, OneStatement DEF n

-----------------------------------------------------------------------------
(* The statements of preview and count.                                    *)

LEMMA Six ==
  ASSUME NEW X, NEW a \in X, NEW b \in X, NEW c \in X, NEW d \in X, NEW e \in X, NEW f \in X
  PROVE  LET s == <<a, b, c, d, e, f>>
         IN  s \in Seq(X) /\ 2 <= Len(s) /\ s[1] = a /\ s[2] = b
  OBVIOUS

LEMMA Ten ==
  ASSUME NEW X, NEW a \in X, NEW b \in X, NEW c \in X, NEW d \in X, NEW e \in X,
         NEW f \in X, NEW g \in X, NEW h \in X, NEW i \in X, NEW j \in X
  PROVE  LET s == <<a, b, c, d, e, f, g, h, i, j>>
         IN  s \in Seq(X) /\ 2 <= Len(s) /\ s[1] = a /\ s[2] = b
  OBVIOUS

LEMMA Thirteen ==
  ASSUME NEW X, NEW a \in X, NEW b \in X, NEW c \in X, NEW d \in X, NEW e \in X,
         NEW f \in X, NEW g \in X, NEW h \in X, NEW i \in X, NEW j \in X,
         NEW k \in X, NEW l \in X, NEW m \in X
  PROVE  LET s == <<a, b, c, d, e, f, g, h, i, j, k, l, m>>
         IN  s \in Seq(X) /\ 2 <= Len(s) /\ s[1] = a /\ s[2] = b
  OBVIOUS

LEMMA Four ==
  ASSUME NEW X, NEW a \in X, NEW b \in X, NEW c \in X, NEW d \in X
  PROVE  LET s == <<a, b, c, d>> IN s \in Seq(X) /\ s[Len(s)] = d
  OBVIOUS

\* What the core writes before a name and behind it.
PreviewHead == <<"SELECT", " ", "*", " ", "FROM", " ">>
TopHead     == <<"SELECT", " ", "TOP", " ", "1", " ", "*", " ", "FROM", " ">>
CountHead   == <<"SELECT", " ", "COUNT", "(", "*", ")", " ", "AS", " ", "ROWCOUNT", " ", "FROM", " ">>
LimitTail   == <<" ", "LIMIT", " ", "1">>
Symbols == {"SELECT", " ", "*", "FROM", "TOP", "1", "COUNT", "(", ")", "AS", "ROWCOUNT", "LIMIT"}

LEMMA SymbolsIdle == \A c \in Symbols : Idle(c)
  BY Zenon DEF Symbols, Idle, Plain, Separates

LEMMA Heads ==
  \A head \in {PreviewHead, TopHead, CountHead} : head \in Seq(Symbols) /\ Reads(head)
<1>1. /\ "SELECT" \in Symbols /\ " " \in Symbols /\ "*" \in Symbols /\ "FROM" \in Symbols
      /\ "TOP" \in Symbols /\ "1" \in Symbols /\ "COUNT" \in Symbols /\ "(" \in Symbols
      /\ ")" \in Symbols /\ "AS" \in Symbols /\ "ROWCOUNT" \in Symbols /\ " " \in Space
  BY Zenon DEF Symbols, Space
<1> DEFINE Begins(s) == s \in Seq(Symbols) /\ 2 <= Len(s) /\ s[1] = "SELECT" /\ s[2] \in Space
<1>2. Begins(PreviewHead)
  BY <1>1, Six, Zenon DEF PreviewHead
<1>3. Begins(TopHead)
  BY <1>1, Ten, Zenon DEF TopHead
<1>4. Begins(CountHead)
  BY <1>1, Thirteen, Zenon DEF CountHead
<1>5. ASSUME NEW s, Begins(s) PROVE Reads(s)
  <2>1. \A i \in 1..Len(s) : s[i] \in Symbols
    BY <1>5
  <2> QED BY <1>5, <2>1, SymbolsIdle DEF Reads
<1> QED BY <1>2, <1>3, <1>4, <1>5, Zenon

LEMMA Tails == \A tail \in {<<>>, LimitTail} : tail \in Seq(Symbols) /\ Follows(tail)
<1>1. " " \in Symbols /\ "LIMIT" \in Symbols /\ "1" \in Symbols /\ "1" \notin Space
  BY Zenon DEF Symbols, Space
<1>2. LimitTail \in Seq(Symbols) /\ LimitTail[Len(LimitTail)] \notin Space
  BY <1>1, Four, Zenon DEF LimitTail
<1>3. <<>> \in Seq(Symbols)
  OBVIOUS
<1>4. ASSUME NEW s \in Seq(Symbols), s = <<>> \/ s[Len(s)] \notin Space PROVE Follows(s)
  <2>1. \A i \in 1..Len(s) : s[i] \in Symbols
    OBVIOUS
  <2> QED BY <1>4, <2>1, SymbolsIdle DEF Follows
<1> QED BY <1>2, <1>3, <1>4

LEMMA OneSymbol == \A s : <<s>> # <<>>
  OBVIOUS

LEMMA Behind ==
  ASSUME NEW W, NEW V, NEW head \in Seq(W), NEW x \in Seq(V), NEW y \in Seq(V), NEW c
  PROVE  (head \o (x \o <<c>> \o y)) \o <<>> = head \o (x \o <<c>> \o y)
<1> DEFINE A == W \cup V \cup {c}
           w == x \o <<c>> \o y
           s == head \o w
<1>1. w \in Seq(A)
  OBVIOUS
<1>2. head \in Seq(A)
  OBVIOUS
<1> HIDE DEF A, w
<1>3. s \in Seq(A)
  BY <1>1, <1>2
<1> HIDE DEF s
<1>4. s \o <<>> = s
  BY <1>3
<1> QED BY <1>4 DEF s, w

LEMMA Preview == ScriptTypeOK => PreviewIsOneRead
<1> SUFFICES ASSUME text \in Seq(ToSet(text)),
                    engine = "sqlserver" => "]" \notin ToSet(text),
                    engine # "sqlserver" => "\\" \notin ToSet(text),
                    NEW sql \in {PreviewSQL(engine, <<"S">>, text), CountSQL(engine, <<"S">>, text)},
                    engine = "sqlserver" => GoLines(sql) = {}
             PROVE  IsOneRead(sql)
  BY Zenon DEF ScriptTypeOK, PreviewIsOneRead, PreviewOfAnyName
<1> DEFINE U == ToSet(text) \cup {"S"}
           x == QuoteIdentifier(engine, <<"S">>)
           y == QuoteIdentifier(engine, text)
<1>1. <<"S">> \in Seq(U) /\ text \in Seq(U)
  <2> DEFINE T == ToSet(text)
             s == "S"
  <2> HIDE DEF T, s
  <2>1. text \in Seq(T)
    BY DEF T
  <2>2. <<s>> \in Seq(T \cup {s}) /\ text \in Seq(T \cup {s})
    BY <2>1
  <2> QED BY <2>2, Zenon DEF T, s
<1>2. IF engine = "sqlserver" THEN "]" \notin U ELSE "\\" \notin U
  BY Zenon
<1>3. \E head \in {PreviewHead, TopHead, CountHead}, tail \in {<<>>, LimitTail} :
         Written(sql, head, x, ".", y, tail)
  <2> DEFINE q == x \o <<".">> \o y
  <2>1. Qualify(engine, <<"S">>, text) = q
    BY OneSymbol, Zenon DEF Qualify
  <2>2. \A head \in {PreviewHead, TopHead, CountHead} : (head \o q) \o <<>> = head \o q
    <3> DEFINE dot == "."
    <3> HIDE DEF dot
    <3>1. x \in Seq(U \cup {OpenQuote(engine), CloseQuote(engine)})
          /\ y \in Seq(U \cup {OpenQuote(engine), CloseQuote(engine)})
      BY <1>1, QuotedTyped, Zenon
    <3>2. \A head \in Seq(Symbols) :
            (head \o (x \o <<dot>> \o y)) \o <<>> = head \o (x \o <<dot>> \o y)
      <4> HIDE DEF x, y
      <4> QED BY <3>1, Behind
    <3> QED BY <3>2, Heads, Zenon DEF dot
  <2>3. CASE sql = PreviewSQL(engine, <<"S">>, text) /\ engine = "sqlserver"
    <3>1. sql = TopHead \o q
      BY <2>1, <2>3, Zenon DEF PreviewSQL, TopHead
    <3> QED BY <2>2, <3>1, Zenon DEF Written
  <2>4. CASE sql = PreviewSQL(engine, <<"S">>, text) /\ engine # "sqlserver"
    <3>1. sql = PreviewHead \o q \o LimitTail
      BY <2>1, <2>4, Zenon DEF PreviewSQL, PreviewHead, LimitTail
    <3> QED BY <3>1, Zenon DEF Written
  <2>5. CASE sql = CountSQL(engine, <<"S">>, text)
    <3>1. sql = CountHead \o q
      BY <2>1, <2>5, Zenon DEF CountSQL, CountHead
    <3> QED BY <2>2, <3>1, Zenon DEF Written
  <2> QED BY <2>3, <2>4, <2>5, Zenon
<1> HIDE DEF U
<1>4. PICK head \in {PreviewHead, TopHead, CountHead}, tail \in {<<>>, LimitTail} :
         Written(sql, head, x, ".", y, tail)
  BY <1>3, Zenon
<1>5. head \in Seq(Symbols) /\ Reads(head) /\ tail \in Seq(Symbols) /\ Follows(tail) /\ Idle(".")
  BY Heads, Tails, QuotesAreNotIdle, Zenon
<1>6. /\ Len(SplitStatements(engine, sql)) = 1 /\ SplitStatements(engine, sql)[1].text = sql
      /\ IsReadOnly(sql) /\ RunsAsQuery(sql)
  BY <1>1, <1>2, <1>4, <1>5, WrittenIsOneRead, Zenon
<1> QED BY <1>6, Zenon DEF IsOneRead

\* What is typed goes on being a sequence of the symbols in it.
LEMMA OfItsSymbols ==
  ASSUME NEW W, NEW s \in Seq(W)
  PROVE  s \in Seq(ToSet(s))
<1>1. \A i \in 1..Len(s) : s[i] \in ToSet(s)
  BY DEF ToSet
<1> QED BY <1>1

LEMMA ScriptStep ==
  ASSUME ScriptTypeOK, subject = "script", ScriptNext, UNCHANGED subject
  PROVE  ScriptTypeOK'
<1>1. PICK phrase \in Phrases[engine] : Type(phrase)
  BY DEF ScriptNext
<1>2. engine \in DOMAIN Phrases /\ text \in Seq(ToSet(text))
  BY DEF ScriptTypeOK
<1>3. phrase \in Seq(ToSet(phrase))
  BY <1>2, PhrasesAssumption
<1>4. text' = text \o phrase /\ engine' = engine
  BY <1>1, Zenon DEF Type
<1> DEFINE W == ToSet(text) \cup ToSet(phrase)
<1>5. text \in Seq(W) /\ phrase \in Seq(W)
  BY <1>2, <1>3
<1> HIDE DEF W
<1>6. text' \in Seq(W)
  BY <1>4, <1>5
<1>7. text' \in Seq(ToSet(text'))
  BY <1>6, OfItsSymbols
<1> QED BY <1>2, <1>4, <1>7 DEF ScriptTypeOK

-----------------------------------------------------------------------------
(* The specification.                                                      *)

LEMMA IInvBegins == Init => IInv
<1> SUFFICES ASSUME Init PROVE IInv
  OBVIOUS
<1>1. ResultInv
  <2>1. CASE subject = "result"
    BY <2>1, ResultBegins DEF Init
  <2>2. CASE subject # "result"
    BY <2>2, NoResult DEF Init
  <2> QED BY <2>1, <2>2
<1>2. FormTypeOK
  <2>1. CASE subject = "form"
    BY <2>1, FormBegins DEF Init
  <2>2. CASE subject # "form"
    <3>1. form = NewForm
      BY <2>2 DEF Init
    <3>2. NewForm.engine \in Engines
      BY Zenon DEF NewForm, Engines
    <3> QED BY <3>1, <3>2 DEF FormTypeOK
  <2> QED BY <2>1, <2>2
<1>3. ScriptTypeOK
  <2>1. CASE subject = "script"
    <3>1. engine \in DOMAIN Phrases /\ text \in Openings
      BY <2>1, Zenon DEF Init, ScriptInit
    <3> QED BY <3>1, PhrasesAssumption DEF ScriptTypeOK
  <2>2. CASE subject # "script"
    <3>1. text = <<>>
      BY <2>2, Zenon DEF Init
    <3> QED BY <2>2, <3>1 DEF ScriptTypeOK
  <2> QED BY <2>1, <2>2
<1> QED BY <1>1, <1>2, <1>3 DEF IInv

LEMMA IInvKept == IInv /\ [Next]_vars => IInv'
<1> SUFFICES ASSUME IInv, [Next]_vars PROVE IInv'
  OBVIOUS
<1>1. ScriptTypeOK /\ ResultInv /\ FormTypeOK
  BY DEF IInv
<1>2. ASSUME UNCHANGED resultVars PROVE ResultInv'
  BY <1>1, <1>2, StopKeeps DEF resultVars
<1>3. ASSUME UNCHANGED formVars PROVE FormTypeOK'
  BY <1>1, <1>3 DEF formVars, FormTypeOK
<1>4. ASSUME UNCHANGED <<subject, scriptVars>> PROVE ScriptTypeOK'
  BY <1>1, <1>4 DEF scriptVars, ScriptTypeOK
<1>5. CASE subject = "script" /\ ScriptNext /\ UNCHANGED <<subject, resultVars, formVars>>
  BY <1>1, <1>2, <1>3, <1>5, ScriptStep DEF IInv
<1>6. CASE subject = "result" /\ ResultNext /\ UNCHANGED <<subject, scriptVars, formVars>>
  BY <1>1, <1>3, <1>4, <1>6, ResultStep DEF IInv
<1>7. CASE subject = "form" /\ FormNext /\ UNCHANGED <<subject, scriptVars, resultVars>>
  BY <1>1, <1>2, <1>4, <1>7, FormStep DEF IInv
<1>8. CASE UNCHANGED vars
  BY <1>2, <1>3, <1>4, <1>8 DEF IInv, vars
<1> QED BY <1>5, <1>6, <1>7, <1>8 DEF Next

\* A script is of its symbols, the result set is as far as the rows taken off the driver say, and the form
\* has one field of every name: what the theorems below rest on.
THEOREM Inv == Spec => []IInv
<1> QED BY IInvBegins, IInvKept, PTL DEF Spec

\* readRows keeps no more rows than it was asked for, and says that there was
\* more exactly when it took a row off the driver that it did not keep.
THEOREM RowsCapped == Spec => []CapKept
<1>1. IInv => CapKept
  BY DEF IInv, ResultInv
<1> QED BY <1>1, Inv, PTL

\* What convertBytes shows in base64 stands in a column said to hold bytes, or
\* in one of booleans that the driver sends as bytes: a column of any other kind
\* is text, and what an unknown one was found to be it stays.
THEOREM BinaryIsShown == Spec => []BinaryStandsInBytes
<1>1. IInv => BinaryStandsInBytes
  BY DEF IInv, ResultInv
<1> QED BY <1>1, Inv, PTL

\* No two columns of a result have one name, whatever the query names them, as
\* long as no name of the query's ends the way deduplicateNames ends one.
THEOREM ColumnsToldApart == Spec => []NamesTellColumnsApart
<1>1. IInv => NamesTellColumnsApart
  BY DEF IInv, ResultInv
<1> QED BY <1>1, Inv, PTL

\* The statements the core writes to preview a table and to count it are one
\* statement each for SplitStatements, a read and a query, whatever the table is
\* called: every name quoteIdentifier quotes is stepped over whole.
THEOREM PreviewIsARead == Spec => []PreviewIsOneRead
<1>1. IInv => PreviewIsOneRead
  BY Preview DEF IInv
<1> QED BY <1>1, Inv, PTL

\* What the validators of the connection editor let through, Config.Validate
\* finds nothing wrong with.
THEOREM EditorAndCoreAgree == Spec => []EditorAgreesWithCore
<1>1. IInv => EditorAgreesWithCore
  BY Agrees DEF IInv
<1> QED BY <1>1, Inv, PTL

\* buildDSN asks a driver to encrypt unless the form, or a parameter of the
\* driver's own, asks for less.
THEOREM NeverOpenUnasked == Spec => []EncryptedUnlessAsked
<1>1. IInv => EncryptedUnlessAsked
  BY Secure DEF IInv
<1> QED BY <1>1, Inv, PTL

\* forEnumeration dials the server of a form that lacks only a database, as the
\* same user and encrypted as far.
THEOREM EnumerationIsDialled == Spec => []EnumerationDials
<1>1. IInv => EnumerationDials
  BY Dials DEF IInv
<1> QED BY <1>1, Inv, PTL
=============================================================================
