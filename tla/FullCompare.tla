---------------------------- MODULE FullCompare ----------------------------
(***************************************************************************)
(* One call of the compare, as every scan loop of FA4 makes it: a file, a  *)
(* find string, the switches and an offset are given, and the verdict is   *)
(* set.  The verdicts are compared with a reference definition of what it  *)
(* is for a find string to stand at an offset.                             *)
(***************************************************************************)
EXTENDS FA4Bytes

CONSTANTS
  Files,     (* The byte sequences searched.                               *)
  Finds,     (* The find strings, as they were given to FA4.               *)
  Options    (* The combinations of switches, a subset of CompOptions.     *)

ASSUME FileBytesAssumption == Files \subseteq Seq(Byte)
ASSUME FindsAssumption == Finds \subseteq Seq(Byte \ {0}) \ {<<>>}
ASSUME OptionsAssumption == Options \subseteq CompOptions

VARIABLES
  lpf, given, opts,   (* The call's inputs; the find as given to FA4.      *)
  dwoff,              (* The offset compared.                              *)
  verdict             (* "none" before the call, then "found" or "no".     *)

compareVars == <<lpf, given, opts, dwoff, verdict>>

Verdict(o, f, at, t) ==
  IF FoundAt(o, f, at, Len(f), Move2Find(o, t)) THEN "found" ELSE "no"

CompareInit ==
  /\ lpf \in Files
  /\ given \in Finds
  /\ opts \in Options
  /\ dwoff \in 0..(Len(lpf) - 1)
  /\ verdict = "none"

Compare ==
  /\ verdict = "none"
  /\ verdict' = Verdict(opts, lpf, dwoff, given)
  /\ UNCHANGED <<lpf, given, opts, dwoff>>

(* The scan loops go on to the next offset.                                *)
Advance ==
  /\ verdict # "none"
  /\ dwoff + 1 < Len(lpf)
  /\ dwoff' = dwoff + 1
  /\ verdict' = "none"
  /\ UNCHANGED <<lpf, given, opts>>

CompareNext == Compare \/ Advance

CompareSpec == CompareInit /\ [][CompareNext]_compareVars

-----------------------------------------------------------------------------
Fits == Len(given) < Len(lpf) - dwoff
FirstByteFolds == opts.parity => opts.case

CompareTypeOK ==
  /\ lpf \in Files /\ given \in Finds /\ opts \in Options
  /\ dwoff \in 0..(Len(lpf) - 1)
  /\ verdict \in {"none", "found", "no"}

(* Fa4Comp.c:74-200: a find that is reported really stands there, whatever *)
(* the mix of -c, -p, -w and -w2; under -i it stands there up to the       *)
(* length of the runs of white space.  A find of one byte with -w is not   *)
(* promised: the byte itself is looked at as the one that delimits it.     *)
(* Nor is -i with -p when the file has bytes with their 8th bit set: they  *)
(* are letters where -p strips the bit, and white space where -i looks.    *)
FindsAreReal ==
  verdict = "found" /\ (Len(given) >= 2 \/ ~opts.whole) =>
    IF opts.spacey
    THEN (opts.parity => SevenBit(lpf)) => StandsSpacey(opts, lpf, dwoff, given)
    ELSE FindStands(opts, lpf, dwoff, given) /\ FindAlone(opts, lpf, dwoff, given)

(* Fa4Comp.c:74-200: without -i, a find of two or more 7-bit bytes that    *)
(* stands before the last byte of the file is reported, unless -p is given *)
(* without -c, when the scan folds the 8th bit after it folds the case.    *)
RealFindsFound ==
  /\ verdict # "none" /\ ~opts.spacey
  /\ Len(given) >= 2 /\ Fits /\ SevenBit(given) /\ FirstByteFolds
  /\ FindStands(opts, lpf, dwoff, given) /\ FindAlone(opts, lpf, dwoff, given)
  => verdict = "found"
=============================================================================
