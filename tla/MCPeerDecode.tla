---------------------------- MODULE MCPeerDecode ----------------------------
(* TLC instance of PeerDecode: four display keys of <app>_default.toml     *)
(* (view_style enumerated, show_remote_cursor plain, trackpad-speed and    *)
(* custom_image_quality numeric), user values on both sides of the         *)
(* bounds and one that is not allowed; peer files that are missing, good,  *)
(* out of range, or malformed; and a session that blanks, clears or sets   *)
(* out of range each field before a store.                                 *)
EXTENDS PeerDecode, TLC

MCKeys == {"view_style", "show_remote_cursor", "trackpad-speed", "custom_image_quality"}

MCVals == {"original", "adaptive", "bogus", "Y", "9", "50", "100", "1000", "4096"}

MCKeySpec ==
    [k \in MCKeys |->
        CASE k = "view_style" -> [kind |-> "enum", default |-> "original", others |-> {"adaptive"}]
          [] k = "trackpad-speed" -> [kind |-> "num", default |-> 100, min |-> 10, max |-> 1000]
          [] k = "custom_image_quality" -> [kind |-> "num", default |-> 50, min |-> 10, max |-> 4095]
          [] OTHER -> [kind |-> "plain"]]

MCShowNum == (9 :> "9") @@ (50 :> "50") @@ (100 :> "100") @@ (1000 :> "1000") @@ (4096 :> "4096")

MCParseNum ==
    [v \in MCVals \cup {""} |->
        IF \E n \in DOMAIN MCShowNum : MCShowNum[n] = v
        THEN CHOOSE n \in DOMAIN MCShowNum : MCShowNum[n] = v ELSE NaN]

MCKeyKind == [k \in MCKeys |-> "other"]

MCNoSettings == [k \in MCKeys |-> Absent]

MCUserInputs ==
    [k \in MCKeys |->
        CASE k = "view_style" -> {"bogus"}
          [] k = "show_remote_cursor" -> {"Y"}
          [] k = "trackpad-speed" -> {"9"}
          [] OTHER -> {"4096"}]

MCPeerInits ==
    { NoPeerFile,
      [view |-> "adaptive", cursor |-> FALSE, track |-> 100, qual |-> <<50>>, platform |-> "Windows"],
      [view |-> "", cursor |-> Bad, track |-> 1001, qual |-> <<5>>, platform |-> "Windows"] }

MCEdits ==
    << [f |-> "view", v |-> ""], [f |-> "cursor", v |-> FALSE],
       [f |-> "track", v |-> 5], [f |-> "qual", v |-> << >>] >>

(* A peer file written by an older build: a trackpad speed of another type. *)
MCMalformedInits ==
    { [view |-> "adaptive", cursor |-> TRUE, track |-> Bad, qual |-> <<50>>, platform |-> "Windows"] }
====
