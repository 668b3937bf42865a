-------------------------------- MODULE Views --------------------------------
(***************************************************************************)
(* The screens and the view models of the two forms.  ContentView shows    *)
(* nothing while the session loads, the challenges when there is an        *)
(* authUser, else the sign-in form, from which the sign-up form is pushed. *)
(*                                                                         *)
(* The form view models are created in the body of the enclosing view and  *)
(* only observed there, so whenever that body is evaluated again the form  *)
(* gets a new one.  A request a replaced view model started goes on; its   *)
(* answer reaches no view any more (SwiftUI's evaluation of bodies is      *)
(* external, modelled from how these views use it).                        *)
(***************************************************************************)
EXTENDS SessionViewModel

CONSTANT Flows   \* requests of AuthManager

VARIABLES
  nav,             \* the form on top of the navigation stack
  signInLoading,   \* isLoading of the SignInViewModel on screen
  signUpLoading,   \* isLoading of the SignUpViewModel on screen
  signInShown,     \* the requests started by the SignInViewModel on screen
  signUpShown      \* the requests started by the SignUpViewModel on screen

viewVars == <<nav, signInLoading, signUpLoading, signInShown, signUpShown>>

ViewsInit ==
  /\ nav = "signIn"
  /\ signInLoading = FALSE
  /\ signUpLoading = FALSE
  /\ signInShown = {}
  /\ signUpShown = {}

Screen == IF isLoading THEN "blank"
          ELSE IF authUser # None THEN "challenges" ELSE nav

\* The session published: ContentView makes a new sign-in form, which makes a
\* new sign-up form.  The navigation stack is kept or torn down.
SessionPublished ==
  /\ nav' \in {nav, "signIn"}
  /\ signInLoading' = FALSE
  /\ signUpLoading' = FALSE
  /\ signInShown' = {}
  /\ signUpShown' = {}

\* The SignInViewModel on screen published: SignInView makes a new sign-up form.
SignInPublished(loading, flows) ==
  /\ signInLoading' = loading
  /\ signInShown' = flows
  /\ signUpLoading' = FALSE
  /\ signUpShown' = {}
  /\ UNCHANGED nav

SignUpPublished(loading, flows) ==
  /\ signUpLoading' = loading
  /\ signUpShown' = flows
  /\ UNCHANGED <<nav, signInLoading, signInShown>>

\* Seeded fault (no part of the specification): the completions leave isLoading
\* set.
SignInCompletion_StillLoading(f) ==
  IF f \in signInShown THEN SignInPublished(signInLoading, signInShown \ {f})
                       ELSE UNCHANGED viewVars
SignUpFailed_StillLoading(f) ==
  IF f \in signUpShown THEN SignUpPublished(signUpLoading, signUpShown \ {f})
                       ELSE UNCHANGED viewVars

\* The completion closures of SignInViewModel.signIn and, with an error, of
\* SignUpViewModel.signUp for request f; self is weak, so only a view model that
\* still is on screen shows anything.
SignInCompletion(f) ==
  IF f \in signInShown THEN SignInPublished(FALSE, signInShown \ {f})
                       ELSE UNCHANGED viewVars

SignUpFailed(f) ==
  IF f \in signUpShown THEN SignUpPublished(FALSE, signUpShown \ {f})
                       ELSE UNCHANGED viewVars

\* Request f ends and its completion is never called.
NoCompletion(f) ==
  /\ signInShown' = signInShown \ {f}
  /\ signUpShown' = signUpShown \ {f}
  /\ UNCHANGED <<nav, signInLoading, signUpLoading>>

\* "Register Here" and the back button.  The sign-up form is a new one unless
\* SignInView was not evaluated since.
OpenSignUp ==
  /\ Screen = "signIn"
  /\ nav' = "signUp"
  /\ \/ UNCHANGED <<signUpLoading, signUpShown>>
     \/ signUpLoading' = FALSE /\ signUpShown' = {}
  /\ UNCHANGED <<signInLoading, signInShown>>

Back ==
  /\ Screen = "signUp"
  /\ nav' = "signIn"
  /\ UNCHANGED <<signInLoading, signUpLoading, signInShown, signUpShown>>

ViewsTypeOK ==
  /\ nav \in {"signIn", "signUp"}
  /\ signInLoading \in BOOLEAN
  /\ signUpLoading \in BOOLEAN
  /\ signInShown \subseteq Flows
  /\ signUpShown \subseteq Flows

=============================================================================
