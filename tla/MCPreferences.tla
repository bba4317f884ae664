--------------------------- MODULE MCPreferences ---------------------------
\* Two tabs of one browser, two users and two calls in flight.
EXTENDS Preferences, TLC

CONSTANTS off, on

MCDefaults == [s \in Settings |-> off]

\* Tabs, users and slots for calls differ in nothing but their names.
Interchangeable == Permutations(Tabs) \cup Permutations(Users) \cup Permutations(Calls)
============================================================================
