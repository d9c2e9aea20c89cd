---------------------------- MODULE MCThemeBuild ----------------------------
EXTENDS ThemeBuild
=============================================================================
