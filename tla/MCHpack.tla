------------------------------ MODULE MCHpack ------------------------------
(***************************************************************************)
(* The headers and the foreign blocks of the runs of HpackStream.          *)
(***************************************************************************)
EXTENDS HpackStream

H(name, value) == [name |-> Bytes(name), value |-> Bytes(value), no_index |-> FALSE]

\* Names and values of the static table, new names, names and values met
\* before, values the deflater does not store, secrets and long values.
MCHeaderLists == {
  <<H(":method", "GET"), H("x-a", "1")>>,
  <<H("x-a", "2"), H("te", "x")>>,
  <<H("authorization", "k"), H("cookie", "aaaaaaaaaaaaaaaaaaaa")>>,
  <<H(":path", "/x"), [H("x-a", "1") EXCEPT !.no_index = TRUE]>>,
  <<H("host", "a-rather-long-host-name-in-full"), H("host", "<")>> }

\* Well-formed and malformed blocks of another origin.
MCRawBlocks == {
  <<130, 134, 132>>,                        \* three static entries
  <<128>>, <<190>>, <<255, 0>>,             \* no such entry
  <<130, 32>>,                              \* a size after a header
  <<63, 33, 130>>, <<63, 225, 0, 130>>,     \* a size, short and overlong
  <<63, 128, 1>>,                           \* a size above the settings
  <<63, 128, 128, 128, 128, 0, 130>>,       \* groups past the width
  <<63, 255, 255, 255, 3>>,                 \* an integer that overflows
  <<64, 1, 97, 1, 98, 190>>,                \* a new entry and a use of it
  <<64, 0, 0, 16, 0, 0>>,                   \* empty names and values
  <<0, 129, 31, 129, 31>>,                  \* coded strings
  <<0, 133, 0, 0, 0, 0, 0, 0>>,             \* a name of the shortest codes
  <<0, 129, 255, 0>>, <<0, 132, 255, 255, 255, 255, 0>>,  \* bad padding, EOS
  <<0, 127, 128, 1, 97>>,                   \* a name that is too long
  <<15, 47, 1, 97>>, <<95, 3, 97, 98>>,     \* a long index; a cut value
  <<64, 1>> }                               \* a cut name

=============================================================================
