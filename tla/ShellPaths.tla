----------------------------- MODULE ShellPaths ------------------------------
(***************************************************************************)
(* The path and string functions of shlwapi (win32-kernel32/src/           *)
(* shlwapi.rs).  A NUL-terminated string is the sequence of its            *)
(* characters; a pointer into one is its offset, and NullPointer is none   *)
(* found.  Null arguments are answered at once and left out.  Of the code  *)
(* units a few are kept, with the code of each.                            *)
(***************************************************************************)
EXTENDS Integers, Sequences, FiniteSetsExt

CONSTANT MAX_PATH     \* characters in a path buffer, with the NUL; 260 in the code

NullPointer == -1
Code == [c \in {".", "/", ":", "A", "\\", "a"} |->
           CASE c = "." -> 46 [] c = "/" -> 47 [] c = ":" -> 58
             [] c = "A" -> 65 [] c = "\\" -> 92 [] c = "a" -> 97]
Separator == {"\\", "/"}

Least(a, b) == IF a < b THEN a ELSE b
Prefix(s, n) == SubSeq(s, 1, Least(n, Len(s)))
From(s, offset) == SubSeq(s, offset + 1, Len(s))
At(s, i) == IF i > Len(s) THEN 0 ELSE Code[s[i]]
to_lower16(u) == IF u \in 65 .. 90 THEN u + 32 ELSE u
is_ascii_alpha16(u) == u \in 65 .. 90 \/ u \in 97 .. 122

\* Where the last of these characters is, from 1; 0 when there is none.
LastOf(s, chars) == Max({0} \cup {i \in DOMAIN s : s[i] \in chars})

-----------------------------------------------------------------------------
(* Paths *)

path_find_file_name_w(path) == LastOf(path, Separator)

\* A mutated form: a dot of a directory counts.
path_find_extension_w_AnyDot(path) ==
  LET dot == LastOf(path, {"."}) IN IF dot = 0 THEN Len(path) ELSE dot - 1

path_find_extension_w(path) ==
  LET dot == LastOf(path, {"."})
  IN IF dot = 0 \/ LastOf(path, Separator) > dot THEN Len(path) ELSE dot - 1

path_remove_file_spec_w(path) ==
  LET sep == LastOf(path, Separator)
  IN IF sep = 0 THEN [ret |-> 0, path |-> path] ELSE [ret |-> 1, path |-> Prefix(path, sep - 1)]

\* The characters of more behind its leading separators.
Stripped(more) ==
  LET skip == Min({Len(more)} \cup {i - 1 : i \in {j \in DOMAIN more : more[j] \notin Separator}})
  IN From(more, skip)

\* What does not fit in the buffer is cut, the separator included.
path_append_w(path, more) ==
  LET rest == IF path = <<>> THEN more ELSE Stripped(more)
      joint == IF path = <<>> \/ path[Len(path)] \in Separator THEN <<>> ELSE <<"\\">>
  IN IF rest = <<>> THEN path ELSE Prefix(path \o joint \o rest, MAX_PATH - 1)

copy_wide(src, cap) == Prefix(src, cap - 1)

\* Any character before the colon makes a drive here.
Absolute(file) ==
  file # <<>> /\ (At(file, 2) = Code[":"] \/ (file[1] = "\\" /\ At(file, 2) = Code["\\"]))

path_combine_w(dir, file) ==
  IF Absolute(file) THEN copy_wide(file, MAX_PATH)
  ELSE path_append_w(copy_wide(dir, MAX_PATH), file)

path_is_relative_w(path) ==
  ~ /\ path # <<>>
    /\ \/ At(path, 2) = Code[":"] /\ is_ascii_alpha16(At(path, 1))
       \/ path[1] = "\\" /\ At(path, 2) = Code["\\"]

-----------------------------------------------------------------------------
(* Comparison and search *)

Unit(s, i, ignore_case) == IF ignore_case THEN to_lower16(At(s, i)) ELSE At(s, i)

\* At most n units; the NUL counts, so that a shorter string comes first.
cmp_wide(s1, s2, n, ignore_case) ==
  LET differ == {i \in 1 .. Least(n, Max({Len(s1), Len(s2)}) + 1) :
                   Unit(s1, i, ignore_case) # Unit(s2, i, ignore_case)}
  IN IF differ = {} THEN 0
     ELSE Unit(s1, Min(differ), ignore_case) - Unit(s2, Min(differ), ignore_case)

\* StrCmpNW and StrCmpNIW take a count; StrCmpW and StrCmpIW compare all.
str_cmp_n_w(s1, s2, n, ignore_case) == IF n <= 0 THEN 0 ELSE cmp_wide(s1, s2, n, ignore_case)
str_cmp_w(s1, s2, ignore_case) == cmp_wide(s1, s2, Max({Len(s1), Len(s2)}) + 1, ignore_case)

Starts(hay, needle, hlen, ignore_case) ==
  {i \in 0 .. (hlen - Len(needle)) :
     \A j \in DOMAIN needle : Unit(hay, i + j, ignore_case) = Unit(needle, j, ignore_case)}

str_str_w_impl(hay, needle, max_hay, ignore_case) ==
  LET found == Starts(hay, needle, Least(Len(hay), max_hay), ignore_case)
  IN IF needle = <<>> THEN 0 ELSE IF found = {} THEN NullPointer ELSE Min(found)

str_str_niw(hay, needle, n) ==
  IF n < 0 THEN NullPointer ELSE str_str_w_impl(hay, needle, n, TRUE)

\* The last occurrence before offset last.
str_rstr_iw(hay, needle, last) ==
  LET found == Starts(hay, needle, Least(Len(hay), last), TRUE)
  IN IF needle = <<>> THEN 0 ELSE IF found = {} THEN NullPointer ELSE Max(found)
-----------------------------------------------------------------------------
(* What the functions promise together *)

Doubled(s) == \E i \in 2 .. Len(s) : s[i - 1] \in Separator /\ s[i] \in Separator
FileName(path) == From(path, path_find_file_name_w(path))
Extension(path) == From(path, path_find_extension_w(path))

\* Directory, file name and extension of a path are where the others leave room.
Splits(path) ==
  LET cut == path_remove_file_spec_w(path)
  IN /\ Len(path) = Len(cut.path) + cut.ret * (1 + Len(FileName(path)))
     /\ Len(Extension(path)) <= Len(FileName(path))
     /\ cut.ret = 0 => path_remove_file_spec_w(FileName(path)) = cut

\* Appending fits the buffer; when nothing is cut it keeps the name and the
\* extension of what is appended, doubles no separator and can be undone, but
\* for a separator the path ended in.
Appends(path, more) ==
  LET q == path_append_w(path, more)
      whole == Len(q) < MAX_PATH - 1
  IN /\ Len(q) < MAX_PATH /\ Prefix(q, Len(path)) = path
     /\ Doubled(q) => Doubled(path) \/ Doubled(more)
     /\ whole /\ q # path =>
          /\ FileName(q) = FileName(more) /\ Extension(q) = Extension(more)
          /\ FileName(more) = more /\ path # <<>> =>
               LET dir == path_remove_file_spec_w(q).path
               IN dir = path \/ \E c \in Separator : Append(dir, c) = path

\* A combined path is relative when both parts are.  The two functions disagree
\* on a drive that is not a letter.
Combines(dir, file) ==
  \/ At(file, 2) = Code[":"] /\ ~is_ascii_alpha16(At(file, 1))
  \/ path_is_relative_w(path_combine_w(dir, file)) <=>
       path_is_relative_w(dir) /\ path_is_relative_w(file)

\* The order of strings is an order, and a search finds the first and the last
\* place where the comparison finds the needle.
Searches(hay, needle) ==
  \A ignore_case \in BOOLEAN :
    LET end == Len(hay)
        order == str_cmp_w(hay, needle, ignore_case)
        places == {i \in 0 .. end : str_cmp_n_w(From(hay, i), needle, Len(needle), ignore_case) = 0}
        first == str_str_w_impl(hay, needle, end, ignore_case)
    IN /\ order = 0 - str_cmp_w(needle, hay, ignore_case)
       /\ order = 0 => Len(hay) = Len(needle) /\ first = 0 /\ (ignore_case \/ hay = needle)
       /\ first = (IF places = {} THEN NullPointer ELSE Min(places))
       /\ ignore_case /\ needle # <<>> =>
            str_rstr_iw(hay, needle, end) = IF places = {} THEN NullPointer ELSE Max(places)
       /\ ignore_case => \A n \in -1 .. end :
            str_str_niw(hay, needle, n) =
              IF 0 <= first /\ first + Len(needle) <= n THEN first ELSE NullPointer
=============================================================================
