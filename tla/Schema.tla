------------------------------- MODULE Schema -------------------------------
(***************************************************************************)
(* The OIDs of the kinds of records and of their fields, on both sides:    *)
(* what the switches of db.js tell apart, and what the server lists.       *)
(***************************************************************************)
EXTENDS Sequences

-----------------------------------------------------------------------------
(* schema.js, as far as the switches of db.js use it. *)

SystemFields == [defaultStartDate |-> <<1, 1>>, defaultEndDate |-> <<1, 2>>]

InterfaceFields ==
    [status |-> <<0, 0>>, type |-> <<0, 4>>, name |-> <<1>>, bind |-> <<3, 1>>, broadcast |-> <<3, 2>>,
     listen |-> <<3, 3>>]

ControllerFields ==
    [status |-> <<0, 0>>, created |-> <<0, 1>>, deleted |-> <<0, 2>>,
     name |-> <<1>>, deviceID |-> <<2>>,
     address_status |-> <<3, 0>>, address |-> <<3, 1>>, address_configured |-> <<3, 2>>, protocol |-> <<3, 3>>,
     datetime_status |-> <<4, 0>>, datetime |-> <<4, 1>>, datetime_configured |-> <<4, 2>>,
     cards_status |-> <<5, 0>>, cards |-> <<5, 1>>,
     events_status |-> <<6, 0>>, first |-> <<6, 1>>, last |-> <<6, 2>>, current |-> <<6, 3>>,
     door1 |-> <<7, 1>>, door2 |-> <<7, 2>>, door3 |-> <<7, 3>>, door4 |-> <<7, 4>>, interlock |-> <<8>>,
     antipassback_status |-> <<9, 0>>, antipassback |-> <<9, 1>>, antipassback_configured |-> <<9, 2>>]

\* The suffixes of a door's own fields are written into the switch.
DoorFields ==
    [status |-> <<0, 0>>, created |-> <<0, 1>>, deleted |-> <<0, 2>>,
     name |-> <<1>>,
     delay |-> <<2>>, delay_status |-> <<2, 1>>, delay_configured |-> <<2, 2>>, delay_err |-> <<2, 3>>,
     mode |-> <<3>>, mode_status |-> <<3, 1>>, mode_configured |-> <<3, 2>>, mode_err |-> <<3, 3>>,
     keypad |-> <<4>>, passcodes |-> <<5>>, readerEntry |-> <<7, 1>>, readerExit |-> <<7, 2>>,
     startTime |-> <<6, 1>>, endTime |-> <<6, 2>>, activeMode |-> <<6, 3>>, inactiveMode |-> <<6, 4>>,
     monday |-> <<6, 5, 1>>, tuesday |-> <<6, 5, 2>>, wednesday |-> <<6, 5, 3>>, thursday |-> <<6, 5, 4>>,
     friday |-> <<6, 5, 5>>, saturday |-> <<6, 5, 6>>, sunday |-> <<6, 5, 7>>]

CardFields ==
    [status |-> <<0, 0>>, created |-> <<0, 1>>, deleted |-> <<0, 2>>,
     name |-> <<1>>, number |-> <<2>>, from |-> <<3>>, to |-> <<4>>, PIN |-> <<6>>, kind |-> <<7>>,
     managementGroup |-> <<8>>, label |-> <<9>>]

GroupFields ==
    [status |-> <<0, 0>>, created |-> <<0, 1>>, deleted |-> <<0, 2>>,
     name |-> <<1>>, firstcard |-> <<3>>, schedule |-> <<4>>]

EventFields ==
    [timestamp |-> <<1>>, deviceID |-> <<2>>, index |-> <<3>>, eventType |-> <<4>>, door |-> <<5>>,
     direction |-> <<6>>, card |-> <<7>>, granted |-> <<8>>, reason |-> <<9>>, deviceName |-> <<10>>,
     doorName |-> <<11>>, cardName |-> <<12>>]

LogFields ==
    [timestamp |-> <<1>>, uid |-> <<2>>, type |-> <<3>>, ID |-> <<4>>, name |-> <<5>>, field |-> <<6>>,
     details |-> <<7>>]

UserFields ==
    [status |-> <<0, 0>>, created |-> <<0, 1>>, deleted |-> <<0, 2>>,
     name |-> <<1>>, uid |-> <<2>>, role |-> <<3>>, password |-> <<4>>, otp |-> <<5>>, locked |-> <<6>>]

Fields ==
    [system |-> SystemFields, interfaces |-> InterfaceFields, controllers |-> ControllerFields,
     doors |-> DoorFields, cards |-> CardFields, groups |-> GroupFields, events |-> EventFields,
     logs |-> LogFields, users |-> UserFields]

\* A card has a field for each group, and a group one for each door: whether it is a member,
\* and of what.
Members == [cards |-> 5, groups |-> 2]

-----------------------------------------------------------------------------
(* catalog/schema and the AsObjects() of each kind: what is listed of a record. *)

Bases == <<"interfaces", "controllers", "doors", "cards", "groups", "events", "logs", "users">>

Base(k) == IF k = "system" THEN <<0, 0>> ELSE <<0, CHOOSE i \in DOMAIN Bases : Bases[i] = k>>

Common == {"status", "created", "deleted"}

ListedFields ==
    [system |-> [defaultStartDate |-> <<1, 1>>, defaultEndDate |-> <<1, 2>>],
     interfaces |->
        [status |-> <<0, 0>>, created |-> <<0, 1>>, deleted |-> <<0, 2>>,
         type |-> <<0, 4>>, name |-> <<1>>, bind |-> <<3, 1>>, broadcast |-> <<3, 2>>, listen |-> <<3, 3>>],
     controllers |->
        [status |-> <<0, 0>>, created |-> <<0, 1>>, deleted |-> <<0, 2>>,
         name |-> <<1>>, deviceID |-> <<2>>, address_status |-> <<3, 0>>, address |-> <<3, 1>>,
         address_configured |-> <<3, 2>>, protocol |-> <<3, 3>>, datetime_status |-> <<4, 0>>,
         datetime |-> <<4, 1>>, datetime_configured |-> <<4, 2>>, cards_status |-> <<5, 0>>, cards |-> <<5, 1>>,
         events_status |-> <<6, 0>>, first |-> <<6, 1>>, last |-> <<6, 2>>, current |-> <<6, 3>>,
         door1 |-> <<7, 1>>, door2 |-> <<7, 2>>, door3 |-> <<7, 3>>, door4 |-> <<7, 4>>, interlock |-> <<8>>,
         antipassback_status |-> <<9, 0>>, antipassback |-> <<9, 1>>, antipassback_configured |-> <<9, 2>>],
     doors |->
        [status |-> <<0, 0>>, created |-> <<0, 1>>, deleted |-> <<0, 2>>,
         name |-> <<1>>, delay |-> <<2>>, delay_status |-> <<2, 1>>, delay_configured |-> <<2, 2>>,
         delay_err |-> <<2, 3>>, mode |-> <<3>>, mode_status |-> <<3, 1>>, mode_configured |-> <<3, 2>>,
         mode_err |-> <<3, 3>>, keypad |-> <<4>>, passcodes |-> <<5>>, readerEntry |-> <<7, 1>>,
         readerExit |-> <<7, 2>>, startTime |-> <<6, 1>>, endTime |-> <<6, 2>>, activeMode |-> <<6, 3>>,
         inactiveMode |-> <<6, 4>>, monday |-> <<6, 5, 1>>, tuesday |-> <<6, 5, 2>>, wednesday |-> <<6, 5, 3>>,
         thursday |-> <<6, 5, 4>>, friday |-> <<6, 5, 5>>, saturday |-> <<6, 5, 6>>, sunday |-> <<6, 5, 7>>],
     cards |->
        [status |-> <<0, 0>>, created |-> <<0, 1>>, deleted |-> <<0, 2>>,
         name |-> <<1>>, managementGroup |-> <<8>>, label |-> <<9>>, number |-> <<2>>, from |-> <<3>>,
         to |-> <<4>>, PIN |-> <<6>>, kind |-> <<7>>, member |-> <<5, 7>>, of |-> <<5, 7, 1>>],
     groups |->
        [status |-> <<0, 0>>, created |-> <<0, 1>>, deleted |-> <<0, 2>>,
         name |-> <<1>>, member |-> <<2, 7>>, of |-> <<2, 7, 1>>, firstcard |-> <<3>>, schedule |-> <<4>>],
     events |->
        [timestamp |-> <<1>>, deviceID |-> <<2>>, index |-> <<3>>, eventType |-> <<4>>, door |-> <<5>>,
         direction |-> <<6>>, card |-> <<7>>, granted |-> <<8>>, reason |-> <<9>>, deviceName |-> <<10>>,
         doorName |-> <<11>>, cardName |-> <<12>>],
     logs |->
        [timestamp |-> <<1>>, uid |-> <<2>>, type |-> <<3>>, ID |-> <<4>>, name |-> <<5>>, field |-> <<6>>,
         details |-> <<7>>],
     users |->
        [status |-> <<0, 0>>, created |-> <<0, 1>>, deleted |-> <<0, 2>>,
         name |-> <<1>>, uid |-> <<2>>, role |-> <<3>>, password |-> <<4>>, otp |-> <<5>>, locked |-> <<6>>]]

=============================================================================
