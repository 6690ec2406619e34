-------------------------- MODULE MCProfileEditor --------------------------
(* TLC instance of ProfileEditor: one browser and one phone.                *)
EXTENDS ProfileEditor

Devices == {"browser", "phone"}
DeviceEditors ==
  [s \in Devices |-> IF s = "browser" THEN {PlayerProfileEditPage, OwnerProfileEditPage}
                     ELSE {PlayerProfileEditScreen, OwnerProfileEditScreen}]

PhoneEditors == [s \in {"phone"} |-> {PlayerProfileEditScreen}]
=============================================================================
