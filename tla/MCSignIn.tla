-------------------------------- MODULE MCSignIn --------------------------------
EXTENDS SignIn, TLC

CONSTANTS admin, ivan

Row(enabled, mode, providers, proxied) ==
  [enabled |-> enabled, mode |-> mode, providers |-> providers, local |-> admin,
   proxied |-> proxied, allowed |-> {ivan}]

\* Direct OIDC, direct SAML, the local administrator next to a proxy that names an
\* allowed user, a proxy that names another one, no single sign-on, no authentication.
MCConfigs == {
  Row(TRUE, "sso", {"oidc"}, None),
  Row(TRUE, "sso", {"saml"}, None),
  Row(TRUE, "both", {}, ivan),
  Row(TRUE, "sso", {"header"}, admin),
  Row(TRUE, "local", {}, ivan),
  Row(FALSE, "both", {"oidc", "saml"}, None)}

MCSymmetry == Permutations(Tabs)
=============================================================================
