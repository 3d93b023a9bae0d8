-------------------------------- MODULE Path --------------------------------
(* Paths (path.c on POSIX) and the entries of a directory (fileinfo.c). A    *)
(* path is a string; the place it leads to is the sequence of names from the *)
(* root. The file system has no links.                                       *)
EXTENDS Text

CONSTANTS Home, Cwd,            \* the home and the working directory
          iPathMaxSegments      \* 128 in the code

iPathSeparator == <<47>>
Dot == <<46>>
DotDot == <<46, 46>>
Tilde == <<126>>

isAbsolute_Path(s) == startsWithSc_Rangecc(s, Tilde) \/ startsWithSc_Rangecc(s, iPathSeparator)

Segments(s) == split_Rangecc(s, Len(s), iPathSeparator)

(* One segment more: repeated separators and "." change nothing, ".." goes   *)
(* up; when there is no room the rest is not looked at.                      *)
Enter(r, seg) ==
  IF ~r.ok THEN r
  ELSE IF seg = Dot \/ (seg = <<>> /\ r.segments # <<>>) THEN [r EXCEPT !.changed = TRUE]
  ELSE IF seg = DotDot /\ r.segments # <<>> /\ Last(r.segments) # DotDot
       THEN [r EXCEPT !.segments = Front(@), !.changed = TRUE]
  ELSE IF Len(r.segments) = iPathMaxSegments THEN [r EXCEPT !.ok = FALSE]
  ELSE [r EXCEPT !.segments = Append(@, seg)]

(* "~" stands for the home directory where no segment precedes it; one that  *)
(* has no room left does not count as a change.                              *)
AtHome(r) == [r EXCEPT !.changed = @ \/ r.ok]
EnterOrGoHome(r, seg) ==
  IF r.ok /\ r.segments = <<>> /\ seg = Tilde /\ Home # <<>>
  THEN AtHome(FoldLeft(Enter, r, Segments(Home)))
  ELSE Enter(r, seg)

splitSegments_Path_(s) ==
  FoldLeft(EnterOrGoHome, [segments |-> <<>>, ok |-> TRUE, changed |-> FALSE], Segments(s))

(* A path none of whose segments is changed stays as it is, also when it has *)
(* too many.                                                                 *)
CleanOf(s, r) ==
  IF s = <<>> \/ ~r.changed THEN s
  ELSE IF r.segments = <<>> THEN Dot
  ELSE (IF isAbsolute_Path(s) THEN iPathSeparator ELSE <<>>) \o Join(r.segments, iPathSeparator)
clean_Path(s) == CleanOf(s, splitSegments_Path_(s))

append_Path(s, x) ==
  clean_Path(IF isAbsolute_Path(x) THEN x
             ELSE IF endsWithSc_Rangecc(s, iPathSeparator) THEN s \o x ELSE s \o iPathSeparator \o x)

FromCwd(path) == IF isAbsolute_Path(path) THEN path ELSE clean_Path(append_Path(Cwd, path))
makeAbsolute_Path(s) == FromCwd(clean_Path(s))

makeRelative_Path(s) ==
  LET rest == From(s, Len(Cwd) + 1)
  IN  IF ~startsWithSc_Rangecc(s, Cwd) THEN s
      ELSE IF startsWithSc_Rangecc(rest, iPathSeparator) THEN Tail(rest) ELSE rest

baseName_Path(s) == LET sep == lastIndexOfCStr_Rangecc(s, iPathSeparator) IN From(s, sep + 2)
dirName_Path(s) ==
  LET sep == lastIndexOfCStr_Rangecc(s, iPathSeparator) IN IF sep = None THEN Dot ELSE Sub(s, 0, sep)
withoutExtension_Path(s) ==
  LET base == baseName_Path(s)
      dot == strstr(base, 0, Dot)
  IN  IF dot = None THEN s ELSE Sub(s, 0, Len(s) - Len(base) + dot)

-----------------------------------------------------------------------------
(* External: the file system. "~" is a name to it; a path that is empty      *)
(* leads nowhere.                                                            *)

Walk(place, seg) == IF seg = <<>> \/ seg = Dot THEN place
                    ELSE IF seg # DotDot THEN Append(place, seg)
                    ELSE IF place = <<>> THEN place ELSE Front(place)
WalkAlong(place, s) == FoldLeft(Walk, place, PartsBetween(s, iPathSeparator))
Place(s) == WalkAlong(IF startsWithSc_Rangecc(s, iPathSeparator) THEN <<>> ELSE WalkAlong(<<>>, Cwd), s)

(* The directories after mkdir, which fails in one that is not there.        *)
mkdir_Path(s, there) ==
  IF s # <<>> /\ (Place(s) = <<>> \/ Front(Place(s)) \in there) THEN there \cup {Place(s)} ELSE there

RECURSIVE makeDirs_Path(_, _), MakeClean(_, _)
MakeClean(s, there) ==
  LET dir == dirName_Path(s)
  IN  mkdir_Path(s, IF dir # <<>> /\ Place(dir) \in there THEN there ELSE makeDirs_Path(dir, there))
makeDirs_Path(s, there) == MakeClean(clean_Path(s), there)

(* The paths of a directory's entries, as its iterator visits them.          *)
initDirEntry_FileInfo_(s, entry) == clean_Path(append_Path(s, entry))
next_DirFileInfoIterator(s, entries) ==
  LET shown == SelectSeq(entries, LAMBDA entry : entry # Dot /\ entry # DotDot)
  IN  [i \in DOMAIN shown |-> initDirEntry_FileInfo_(s, shown[i])]

-----------------------------------------------------------------------------

\* The place a user means: "~" in front is the home directory.
Meant(s) == IF s = Tilde \/ At(s, 0, Tilde \o iPathSeparator)
            THEN WalkAlong(Place(Home), From(s, 2)) ELSE Place(s)

LosesSegments(r) == ~r.ok /\ r.changed

(* The paths the code takes elsewhere: an absolute one of which nothing      *)
(* remains, a name that begins with "~", one with too many segments of which *)
(* any is changed, and a "~" or, in a relative path, a repeated separator    *)
(* that follows only segments that cancel each other: "./~", "a/..//b".      *)
GoesAstray(s) ==
  \/ isAbsolute_Path(s) /\ splitSegments_Path_(s).segments = <<>>
  \/ startsWithSc_Rangecc(s, Tilde) /\ Len(s) > 1 /\ s[2] # 47
  \/ LosesSegments(splitSegments_Path_(s))
  \/ \E p \in 1..Len(s) - 1 :
       /\ s[p] = 47 /\ splitSegments_Path_(Sub(s, 0, p)).segments = <<>>
       /\ \/ s[p + 1] = 126 /\ (p + 1 = Len(s) \/ s[p + 2] = 47)
          \/ s[p + 1] = 47 /\ ~isAbsolute_Path(s)

LeadsTo(path, place) == isAbsolute_Path(path) /\ Place(path) = place
AreIn(paths, place, names) ==
  /\ Len(paths) = Cardinality(names)
  /\ {Place(paths[i]) : i \in DOMAIN paths} = {Append(place, x) : x \in names}

(* A path leads to the same place when it is cleaned, made absolute or made  *)
(* relative, and cleaning it again changes nothing; a path appended to it,   *)
(* or the name of an entry, starts where it leads; its parts put together    *)
(* are the path; and after its directories are made it is there. (GoesAstray *)
(* names the exceptions; relative paths ignore where a name ends.)           *)
PathsKeepTheirPlace ==
  LET s == text
      there == {<<>>, Place(Home), Place(Cwd), Front(Place(Home))}
      names == {<<97>>, DotDot \o <<97>>, <<97, 46, 97>>}
  IN  /\ s = IF strstr(s, 0, iPathSeparator) = None THEN baseName_Path(s)
             ELSE dirName_Path(s) \o iPathSeparator \o baseName_Path(s)
      /\ startsWithSc_Rangecc(s, withoutExtension_Path(s))
      /\ strstr(baseName_Path(withoutExtension_Path(s)), 0, Dot) = None
      /\ s # <<>> /\ ~GoesAstray(s) =>
           /\ Place(clean_Path(s)) = Meant(s)
           /\ clean_Path(clean_Path(s)) = clean_Path(s)
           /\ isAbsolute_Path(s) \/ ~GoesAstray(Cwd \o iPathSeparator \o clean_Path(s)) =>
                LeadsTo(makeAbsolute_Path(s), Meant(s))
           /\ Meant(s) \in makeDirs_Path(s, there)
           /\ \A x \in names \cup {DotDot, <<97, 47, 46, 46>>} :
                ~GoesAstray(s \o iPathSeparator \o x) =>
                  Place(append_Path(s, x)) = WalkAlong(Meant(s), x)
           /\ splitSegments_Path_(s \o iPathSeparator \o <<97>>).ok =>
                AreIn(next_DirFileInfoIterator(s, <<Dot>> \o SetToSeq(names) \o <<DotDot>>), Meant(s), names)
      /\ At(s, 0, Cwd \o iPathSeparator) =>
           LET rest == makeRelative_Path(s) IN isAbsolute_Path(rest) \/ Place(rest) = Place(s)
=============================================================================
