----------------------------- MODULE TableAccess -----------------------------
(***************************************************************************)
(* A table's columns and one of its rows, from writing to use:             *)
(*   - create_table writes the page of the columns (heapfile.c);           *)
(*   - add_tuple makes the bytes of a row and compares the columns it was  *)
(*     given with that page (heapfile.c);                                  *)
(*   - HeapfileAccess::schema reads the columns (access_method.cpp);       *)
(*   - a logical expression is evaluated on the row (logical_expression.cpp,*)
(*     schema.cpp, primitive.cpp).                                         *)
(* Loops over columns take one step per column.  Where the tuple goes on a *)
(* heap page is HeapFile's subject.                                        *)
(*                                                                         *)
(* A value is a sequence: an INTEGER is <<n>>, a BOOLEAN <<0>> or <<1>>, a  *)
(* DECIMAL its 8 bytes (all 0 for zero), a STRING its characters.  What an *)
(* operator of an expression computes is the record of its operands.       *)
(***************************************************************************)
EXTENDS Bytes

CONSTANT Tables    \* the tables: cols (name, type) and the values of a row

VARIABLES
  table,     \* the table being worked on
  page,      \* TABLE_SCHEMA_PAGE
  args,      \* the columns add_tuple is called with
  tuple,     \* the bytes of the row
  verdict,   \* "none", "accepted" or "rejected" by add_tuple
  schema,    \* the columns HeapfileAccess::schema has read
  col,       \* how many columns the loop at hand has done
  at,        \* create_table's col_size, add_tuple's schema_curr_offset, schema's cursor
  result,    \* what evaluate returned, for which expression
  tpc        \* "idle", "create", "add", "check", "open", "schema", "query", "done" or "overrun"

tablevars == <<table, page, args, tuple, verdict, schema, col, at, result, tpc>>

START_COLUMNS_INFO == 1
SCHEMA_COLUMN_SIZE(col_name_len) == 1 + col_name_len + 1

ColumnType == {"BOOLEAN", "STRING", "INTEGER", "DECIMAL"}

\* The name has no null character, its length is a byte.
Column == [name : {s \in Seq(1 .. Base - 1) : Len(s) \in Byte}, type : ColumnType]

\* The values of a type; a STRING's length has two bytes.
ValueOf == [BOOLEAN |-> {<<0>>, <<1>>}, STRING |-> {s \in Seq(Byte) : Len(s) < Word},
            INTEGER |-> [1 .. 1 -> int32], DECIMAL |-> [1 .. 8 -> Byte]]

ASSUME TablesAssumption ==
  \A t \in Tables : /\ t.cols \in Seq(Column) /\ Len(t.cols) \in Byte
                    /\ \A k \in 1 .. Len(t.cols) : t.row[k] \in ValueOf[t.cols[k].type]

TypeByte == [BOOLEAN |-> 1, STRING |-> 2, INTEGER |-> 3, DECIMAL |-> 4]

\* The type schema() decodes; another byte leaves the pointer to the type null.
TypeOf(b) ==
  IF \E t \in ColumnType : TypeByte[t] = b THEN CHOOSE t \in ColumnType : TypeByte[t] = b
  ELSE "null"

getSize == [BOOLEAN |-> 1, STRING |-> 1024, INTEGER |-> 4, DECIMAL |-> 8]

TableIdle ==
  /\ table = [cols |-> <<>>, row |-> <<>>]
  /\ page = [i \in 0 .. PAGE_SIZE - 1 |-> 0]
  /\ args = <<>> /\ tuple = <<>> /\ verdict = "none" /\ schema = <<>> /\ result = <<>>
  /\ col = 0 /\ at = 0
  /\ tpc = "idle"

TableInit ==
  /\ table \in Tables
  /\ page = [i \in 0 .. PAGE_SIZE - 1 |-> IF i = 0 THEN Len(table.cols) ELSE 0]
  /\ args = <<>> /\ tuple = <<>> /\ verdict = "none" /\ schema = <<>> /\ result = <<>>
  /\ col = 0 /\ at = 0
  /\ tpc = "create"

\* The bytes of a column on the page
ColumnBytes(c) == <<Len(c.name)>> \o c.name \o <<TypeByte[c.type]>>

\* A column goes to its index times the size of the column before it.
WriteColumn ==
  LET c == table.cols[col + 1]
      offset == START_COLUMNS_INFO + col * at
  IN /\ tpc = "create" /\ col < Len(table.cols)
     /\ IF InPage(offset, SCHEMA_COLUMN_SIZE(Len(c.name)))
        THEN page' = Copied(page, offset, ColumnBytes(c)) /\ tpc' = tpc
        ELSE tpc' = "overrun" /\ page' = page
     /\ at' = SCHEMA_COLUMN_SIZE(Len(c.name))
     /\ col' = col + 1
     /\ UNCHANGED <<table, args, tuple, verdict, schema, result>>

TableCreated ==
  /\ tpc = "create" /\ col = Len(table.cols)
  /\ tpc' = "add"
  /\ UNCHANGED <<table, page, args, tuple, verdict, schema, col, at, result>>

\* The bytes of a value in a tuple
ValueBytes(type, v) ==
  CASE type = "STRING" -> encode_uint16(Len(v)) \o v
    [] type = "INTEGER" -> encode_int32(v[1])
    [] OTHER -> v

\* What a caller may pass for the table's columns: themselves, one column too
\* few or too many, and the last with a longer name, a shorter one or another type
Calls(cols) ==
  LET n == Len(cols)
      last == cols[n]
      Changed(c) == [cols EXCEPT ![n] = c]
  IN {cols, Append(cols, [name |-> <<9>>, type |-> "BOOLEAN"])} \cup
     IF n = 0 THEN {}
     ELSE {SubSeq(cols, 1, n - 1),
           Changed([last EXCEPT !.name = Append(@, 9)]),
           Changed([last EXCEPT !.name = SubSeq(@, 1, Len(@) - 1)]),
           Changed([last EXCEPT !.type = IF @ = "BOOLEAN" THEN "INTEGER" ELSE "BOOLEAN"])}

Zero(type) == IF type = "DECIMAL" THEN [i \in 1 .. 8 |-> 0] ELSE <<0>>

\* The bytes of the row for the columns a caller passes, one value after the other
RowBytes(cols) ==
  LET Passed(i) ==
        IF i \in DOMAIN table.cols /\ cols[i].type = table.cols[i].type THEN table.row[i]
        ELSE Zero(cols[i].type)
  IN Concat([i \in DOMAIN cols |-> ValueBytes(cols[i].type, Passed(i))])[Len(cols)]

\* add_tuple, up to its loop over the columns on the page
add_tuple ==
  /\ tpc = "add"
  /\ args' \in Calls(table.cols)
  /\ tuple' = RowBytes(args')
  /\ col' = 0 /\ at' = 0
  /\ tpc' = "check"
  /\ UNCHANGED <<table, page, verdict, schema, result>>

\* strncmp(a, b, Len(a)) = 0, b with a 0 at its end
strncmp(a, b) ==
  LET z == [k \in DOMAIN a |-> IF k <= Len(b) THEN b[k] ELSE 0]
  IN \A d \in DOMAIN a : a[d] # z[d] => \E k \in 1 .. d - 1 : a[k] = 0 /\ z[k] = 0

\* mutant: the index of the column before is taken
SchemaOffset_before ==
  START_COLUMNS_INFO +
    (IF col = 0 THEN 0 ELSE col - 1) * SCHEMA_COLUMN_SIZE(page[START_COLUMNS_INFO + at])

\* A column is looked for at its index times the size of the one found before.
SchemaOffset == START_COLUMNS_INFO + col * SCHEMA_COLUMN_SIZE(page[START_COLUMNS_INFO + at])

\* mutant: the type is not compared
ColumnMatches_untyped(offset, arg) == strncmp(BytesAt(page, offset + 1, page[offset]), arg.name)

\* The column on the page at offset against one that was passed
ColumnMatches(offset, arg) ==
  /\ strncmp(BytesAt(page, offset + 1, page[offset]), arg.name)
  /\ page[offset + 1 + page[offset]] = TypeByte[arg.type]

\* One round of the loop.  The numbers of columns are compared in it too, and so
\* not at all for a table without columns.
CheckColumn ==
  /\ tpc = "check" /\ col < page[0]
  /\ at' = SchemaOffset - START_COLUMNS_INFO
  /\ IF Len(args) = page[0] /\ ColumnMatches(SchemaOffset, args[col + 1])
     THEN col' = col + 1 /\ UNCHANGED <<verdict, tpc>>
     ELSE verdict' = "rejected" /\ tpc' = "open" /\ col' = col
  /\ UNCHANGED <<table, page, args, tuple, schema, result>>

ColumnsChecked ==
  /\ tpc = "check" /\ col = page[0]
  /\ verdict' = "accepted"
  /\ tpc' = "open"
  /\ UNCHANGED <<table, page, args, tuple, schema, col, at, result>>

OpenSchema ==
  /\ tpc = "open"
  /\ at' = START_COLUMNS_INFO
  /\ col' = 0
  /\ tpc' = "schema"
  /\ UNCHANGED <<table, page, args, tuple, verdict, schema, result>>

\* mutant: the type byte is not skipped
NextCursor_tight(length) == (at + SCHEMA_COLUMN_SIZE(length) - 1) % Base

NextCursor(length) == (at + SCHEMA_COLUMN_SIZE(length)) % Base

\* One round of the loop of schema
ReadColumn ==
  LET length == page[at]
      c == [name |-> BytesAt(page, at + 1, length), type |-> TypeOf(page[at + 1 + length])]
  IN /\ tpc = "schema" /\ col < page[0]
     /\ schema' = Append(schema, c)
     /\ at' = NextCursor(length)
     /\ col' = col + 1
     /\ UNCHANGED <<table, page, args, tuple, verdict, result, tpc>>

SchemaRead ==
  /\ tpc = "schema" /\ col = page[0]
  /\ tpc' = "query"
  /\ UNCHANGED <<table, page, args, tuple, verdict, schema, col, at, result>>
-----------------------------------------------------------------------------
Value(type, v) == [type |-> type, v |-> v]
Thrown == [type |-> "thrown"]
Crashed == [type |-> "crashed"]
Unknown == <<>>     \* no value: bytes of another one, or of none

ColumnLogicalExpr(name) == [kind |-> "column", name |-> name]
ConstantLogicalExpr(value) == [kind |-> "constant", value |-> value]
BinaryLogicalExpr(l, r, op) == [kind |-> "binary", children |-> <<l, r>>, op |-> op]

BooleanValue(b) == Value("BOOLEAN", IF b[1] = 0 THEN <<0>> ELSE <<1>>)
IntegerValue(b) == Value("INTEGER", <<decode_int32(b)>>)
DecimalValue(b) == Value("DECIMAL", b)

\* The constructor that a string's pointer selects takes a bool.
VarcharValue == Value("STRING", Unknown)

\* The value of the type whose bytes start after the first offset ones
deserialize(type, bytes, offset) ==
  LET b == SubSeq(bytes, offset + 1, offset + getSize[type])
  IN IF type = "STRING" THEN VarcharValue
     ELSE IF offset + getSize[type] > Len(bytes) THEN Value(type, Unknown)
     ELSE CASE type = "BOOLEAN" -> BooleanValue(b)
            [] type = "INTEGER" -> IntegerValue(b)
            [] type = "DECIMAL" -> DecimalValue(b)

\* mutant: every column has four bytes
getValue_words(bytes, cols, k) == deserialize(cols[k].type, bytes, (k - 1) * 4)

\* Row::getValue for the k-th column: the columns before it are taken to have
\* its own size.
getValue(bytes, cols, k) ==
  deserialize(cols[k].type, bytes, (k - 1) * getSize[cols[k].type])

\* The field of the union that type reads
Field(type, value) == IF value.type = type THEN value.v ELSE Unknown

\* add, subtract, multiply and divide of the left operand's type
Apply(op, l, r) ==
  IF l.type \notin {"INTEGER", "DECIMAL"} THEN Thrown
  ELSE IF op = "DIVIDE" /\ Field(l.type, r) = Zero(l.type) THEN Thrown
  ELSE [type |-> l.type, op |-> op, left |-> l.v, right |-> Field(l.type, r)]

\* The index of the first column of that name, 0 without one
FirstNamed(cols, name) ==
  IF \E k \in DOMAIN cols : cols[k].name = name
  THEN CHOOSE k \in DOMAIN cols : cols[k].name = name /\ \A j \in 1 .. k - 1 : cols[j].name # name
  ELSE 0

\* A column of no type is a null pointer, which getValue follows.
Leaf(e, bytes, cols) ==
  LET k == FirstNamed(cols, e.name)
  IN IF e.kind = "constant" THEN e.value
     ELSE IF k = 0 THEN Thrown
     ELSE IF cols[k].type = "null" THEN Crashed
     ELSE getValue(bytes, cols, k)

\* Both operands are evaluated, the left one first.
evaluate(e, bytes, cols) ==
  IF e.kind # "binary" THEN Leaf(e, bytes, cols)
  ELSE LET l == Leaf(e.children[1], bytes, cols)
           r == Leaf(e.children[2], bytes, cols)
       IN IF l \in {Thrown, Crashed} THEN l
          ELSE IF r \in {Thrown, Crashed} THEN r
          ELSE Apply(e.op, l, r)

\* A column, and what two columns or a column and a 0 are combined to
Exprs(cols) ==
  LET columns == {ColumnLogicalExpr(cols[k].name) : k \in DOMAIN cols}
      zero == ConstantLogicalExpr(Value("INTEGER", Zero("INTEGER")))
  IN columns \cup {BinaryLogicalExpr(l, r, op) : l \in columns, r \in columns \cup {zero},
                                                op \in {"ADD", "DIVIDE"}}

\* Whether BinaryLogicalExpr reads the left operand's type before or after it
\* moves the operand away is not specified.
Evaluate(e) ==
  /\ tpc = "query" /\ verdict = "accepted" /\ args = table.cols
  /\ \/ result' = [expr |-> e, value |-> evaluate(e, tuple, schema)]
     \/ e.kind = "binary" /\ result' = [expr |-> e, value |-> Crashed]
  /\ tpc' = "done"
  /\ UNCHANGED <<table, page, args, tuple, verdict, schema, col, at>>

TableNext ==
  \/ WriteColumn
  \/ TableCreated
  \/ add_tuple
  \/ CheckColumn
  \/ ColumnsChecked
  \/ OpenSchema
  \/ ReadColumn
  \/ SchemaRead
  \/ \E e \in Exprs(table.cols) : Evaluate(e)

TableSpec == TableInit /\ [][TableNext]_tablevars
-----------------------------------------------------------------------------
Size(k) == SCHEMA_COLUMN_SIZE(Len(table.cols[k].name))

\* Where create_table puts a column, and where it is after the ones before it
WrittenAt(k) == IF k = 1 THEN START_COLUMNS_INFO ELSE START_COLUMNS_INFO + (k - 1) * Size(k - 1)
InOrderAt(k) == START_COLUMNS_INFO + Sums([i \in DOMAIN table.cols |-> Size(i)])[k - 1]

\* No two columns were written over each other.
Apart ==
  \A i, k \in DOMAIN table.cols :
    i < k => WrittenAt(i) + Size(i) <= WrittenAt(k) \/ WrittenAt(k) + Size(k) <= WrittenAt(i)

\* At most two columns or names of one length, and no column past byte Base
Plain ==
  /\ Len(table.cols) <= 2 \/ \A i, k \in DOMAIN table.cols : Size(i) = Size(k)
  /\ \A k \in DOMAIN table.cols : InOrderAt(k) < Base

(***************************************************************************)
(* HeapfileAccess::schema returns the columns create_table was given when  *)
(* the names have one length or there are at most two columns, and the     *)
(* last column starts where an 8-bit cursor still reaches.  (With three    *)
(* names of different lengths the writer and this reader disagree.)        *)
(***************************************************************************)
SchemaReadBack == tpc = "query" /\ Plain => schema = table.cols

(***************************************************************************)
(* add_tuple accepts the columns the table was created with, as long as    *)
(* create_table did not write one over another: its loop follows the       *)
(* writer's arithmetic and not the order of the bytes.                     *)
(***************************************************************************)
OwnColumnsAccepted == verdict = "rejected" /\ Apart => args # table.cols

(***************************************************************************)
(* What add_tuple accepts for a table with columns has as many of them, of *)
(* the same types and with names that start with the table's names.  (For  *)
(* a table without columns everything is accepted.)                        *)
(***************************************************************************)
AcceptedMatch ==
  verdict = "accepted" /\ Apart /\ table.cols # <<>> =>
    /\ Len(args) = Len(table.cols)
    /\ \A k \in DOMAIN args :
         /\ args[k].type = table.cols[k].type
         /\ Len(table.cols[k].name) <= Len(args[k].name)
         /\ SubSeq(args[k].name, 1, Len(table.cols[k].name)) = table.cols[k].name

\* The columns up to k have as many bytes in a tuple as getSize says of k.
SameSizes(k) ==
  /\ table.cols[k].type # "STRING"
  /\ \A i \in 1 .. k - 1 : getSize[table.cols[i].type] = getSize[table.cols[k].type]

\* The value in the row of the column an expression names
Stored(e) ==
  LET k == FirstNamed(table.cols, e.name)
  IN IF e.kind = "constant" THEN e.value ELSE Value(table.cols[k].type, table.row[k])

Readable(e) == e.kind = "constant" \/ SameSizes(FirstNamed(table.cols, e.name))

(***************************************************************************)
(* An expression on a row that add_tuple accepted is evaluated on the      *)
(* values that were added, through the columns schema read from disk, when *)
(* those columns are read back and every column before the ones it names   *)
(* is as wide as they are; it throws on a division by 0 and on arithmetic  *)
(* of BOOLEANs.                                                            *)
(***************************************************************************)
EvaluatesStored ==
  tpc = "done" /\ Plain /\ result.value # Crashed =>
    LET e == result.expr
    IN IF e.kind # "binary" THEN Readable(e) => result.value = Stored(e)
       ELSE (\A i \in {1, 2} : Readable(e.children[i])) =>
              result.value = Apply(e.op, Stored(e.children[1]), Stored(e.children[2]))
=============================================================================
